---- MODULE Spec2Model ----
(***************************************************************************)
(* A model of the Blip/BPS patch toolkit: the variable-length integer      *)
(* codec (blip/util.py), the stream validator (blip/validate.py), the      *)
(* binary reader and writer (blip/io.py), the applier (blip/apply.py),     *)
(* the optimizer (blip/optimize.py), the delta search (bps/diff.py) and    *)
(* the operation classes (bps/operations.py).                              *)
(*                                                                         *)
(* Python integers are unbounded.  Those that can leave the 32-bit range   *)
(* (the argument of encode_var_int, the header's source size, CRC values)  *)
(* are modelled as sign-and-magnitude numbers whose magnitude is a         *)
(* little-endian sequence of base-128 digits; all other integers are       *)
(* plain integers.  Byte strings are sequences of 0..255 and text strings   *)
(* (the header's metadata) are sequences of code points.                   *)
(***************************************************************************)
EXTENDS Integers, Sequences, FiniteSets, TLC

(***************************************************************************)
(* Bounds of the model.                                                    *)
(***************************************************************************)
\* Small integers 0..MaxSmallInt are all given to encode_var_int.
MaxSmallInt == 300
\* Longest base-128 magnitude given to encode_var_int.
MaxDigits == 22
\* Passes of encode_var_int's loop after which the model stops following it.
MaxVarIntLoops == 26
\* Largest source and target size a header of the validated stream declares.
MaxSourceSize == 3
MaxTargetSize == 3
\* Largest length of a hunk and largest copy offset (in absolute value) in
\* the validated stream.
MaxSpan == 3
MaxOffset == 3
MaxIOHunks == 2
\* Longest patch that is given to read_blip with a damaged byte.
MaxDamagedLen == 24
\* Longest source a patch is applied to, largest target size of such a
\* patch and most hunks in it.
MaxPatchSource == 2
MaxPatchTarget == 3
MaxPatchHunks == 3
\* Longest source of the patches that are only applied.
MaxApplySource == 0
\* Most hunks in a patch that is written to a file.
MaxFileHunks == 2
\* Largest bytespan and offset of a constructed operation, and largest
\* length passed to shrink.
MaxOpSpan == 2
MaxOpOffset == 2
MaxShrink == 2
\* Most operations in an OpBuffer before a call, and largest rollback.
MaxBufferOps == 2
MaxRollback == 3
\* Most bytes passed through a CRCIOWrapper before a call, most bytes in the
\* stream it is made on, most bytes of one write and the largest size given
\* to read and truncate, and the last position at which a write starts.
MaxWrapped == 3
MaxInner == 2
MaxWrite == 2
MaxSize == 2
MaxPos == 3
\* Longest metadata written as assembler text.
MaxMetadata == 4
\* Items given to write_blip after the header.
MaxWriteItems == 4
\* The least copy offset whose doubled value takes three bytes as a
\* variable-length integer; the long hunks are one byte shorter.
LargeSpan == 8256
MaxDiffSource == 3
MaxDiffTarget == 4
\* bps/diff.py divides the two lengths by 1000000 to get its block size; the
\* model divides by BlockDivisor, so that short inputs get blocks of 2 bytes.
BlockDivisor == 5

(***************************************************************************)
(* Python sequence helpers.                                                *)
(***************************************************************************)
Min(a, b) == IF a < b THEN a ELSE b
Max(a, b) == IF a > b THEN a ELSE b

\* seq[Len] dropped / seq without its first element, total on <<>>.
Rest(s) == IF s = <<>> THEN <<>> ELSE Tail(s)

(***************************************************************************)
(* Unbounded integers: magnitudes are little-endian base-128 digit         *)
(* sequences without a most-significant zero digit.                        *)
(***************************************************************************)
Digit(m, i) == IF i <= Len(m) THEN m[i] ELSE 0

RECURSIVE MagNorm(_)
MagNorm(m) ==
    IF m = <<>> THEN <<>>
    ELSE IF m[Len(m)] = 0 THEN MagNorm(SubSeq(m, 1, Len(m) - 1))
    ELSE m

RECURSIVE MagOfNat(_)
MagOfNat(k) == IF k = 0 THEN <<>> ELSE <<k % 128>> \o MagOfNat(k \div 128)

\* Only used on magnitudes known to fit a plain integer.
RECURSIVE NatOfMag(_)
NatOfMag(m) == IF m = <<>> THEN 0 ELSE m[1] + 128 * NatOfMag(Tail(m))

RECURSIVE MagAddC(_, _, _)
MagAddC(a, b, c) ==
    IF a = <<>> /\ b = <<>> THEN (IF c = 0 THEN <<>> ELSE <<c>>)
    ELSE LET s == Digit(a, 1) + Digit(b, 1) + c
         IN  <<s % 128>> \o MagAddC(Rest(a), Rest(b), s \div 128)

\* a - b - c for a >= b + c.
RECURSIVE MagSubB(_, _, _)
MagSubB(a, b, c) ==
    IF a = <<>> THEN <<>>
    ELSE LET d == Digit(a, 1) - Digit(b, 1) - c
         IN  IF d < 0 THEN <<d + 128>> \o MagSubB(Rest(a), Rest(b), 1)
             ELSE <<d>> \o MagSubB(Rest(a), Rest(b), 0)

RECURSIVE MagLess(_, _)
MagLess(a, b) ==
    IF Len(a) # Len(b) THEN Len(a) < Len(b)
    ELSE IF a = <<>> THEN FALSE
    ELSE IF a[Len(a)] # b[Len(b)] THEN a[Len(a)] < b[Len(b)]
    ELSE MagLess(SubSeq(a, 1, Len(a) - 1), SubSeq(b, 1, Len(b) - 1))

RECURSIVE MagMulC(_, _, _)
MagMulC(a, k, c) ==
    IF a = <<>> THEN MagOfNat(c)
    ELSE LET p == a[1] * k + c
         IN  <<p % 128>> \o MagMulC(Tail(a), k, p \div 128)

\* The integer of this sign and magnitude; the magnitude loses its leading zeros.
BigMk(neg, mag) == [neg |-> neg /\ MagNorm(mag) # <<>>, mag |-> MagNorm(mag)]
BigOfInt(i) == IF i < 0 THEN BigMk(TRUE, MagOfNat(0 - i)) ELSE BigMk(FALSE, MagOfNat(i))
IntOfBig(x) == IF x.neg THEN 0 - NatOfMag(x.mag) ELSE NatOfMag(x.mag)

BigAdd(x, y) ==
    IF x.neg = y.neg THEN BigMk(x.neg, MagAddC(x.mag, y.mag, 0))
    ELSE IF MagLess(x.mag, y.mag) THEN BigMk(y.neg, MagSubB(y.mag, x.mag, 0))
    ELSE BigMk(x.neg, MagSubB(x.mag, y.mag, 0))

BigSub(x, y) == BigAdd(x, BigMk(~y.neg, y.mag))

\* x < y
BigLess(x, y) ==
    IF x.neg # y.neg THEN x.neg
    ELSE IF x.neg THEN MagLess(y.mag, x.mag)
    ELSE MagLess(x.mag, y.mag)

\* x & 0x7F with Python's two's-complement view of negative numbers.
BigAnd7F(x) ==
    IF x.neg THEN (128 - Digit(x.mag, 1)) % 128 ELSE Digit(x.mag, 1)

\* x >> 7, rounding towards minus infinity as Python does.
BigShr7(x) ==
    IF x.neg
    THEN BigMk(TRUE, MagAddC(Rest(x.mag), <<>>, IF Digit(x.mag, 1) # 0 THEN 1 ELSE 0))
    ELSE BigMk(FALSE, Rest(x.mag))

(***************************************************************************)
(* blip/util.py: read_var_int and encode_var_int.                          *)
(***************************************************************************)
\* Locals of encode_var_int on entry.
encode_var_int_init(number) ==
    [number |-> number, shift |-> 1, buf |-> <<>>, pc |-> "loop", passes |-> 0]

\* One pass of the `while True` body of encode_var_int.
encode_var_int_pass(e) ==
    LET low     == BigAnd7F(e.number)
        buf1    == Append(e.buf, low)
        number1 == BigSub(e.number, BigOfInt(low))
    IN  IF number1.mag = <<>>
        THEN [e EXCEPT !.buf = [buf1 EXCEPT ![Len(buf1)] = low + 128],
                       !.number = number1,
                       !.pc = "return",
                       !.passes = e.passes + 1]
        ELSE [e EXCEPT !.buf = buf1,
                       !.number = BigShr7(BigSub(number1, BigOfInt(e.shift))),
                       !.shift = e.shift + 7,
                       !.passes = e.passes + 1]

RECURSIVE encode_var_int_run(_)
encode_var_int_run(e) ==
    IF e.pc = "return" \/ e.passes >= MaxVarIntLoops THEN e
    ELSE encode_var_int_run(encode_var_int_pass(e))

\* The locals of encode_var_int when it returns (pc = "return", the result
\* in buf) or when the model stops following a loop that has not ended.
encode_var_int(number) == encode_var_int_run(encode_var_int_init(number))

\* Locals of read_var_int on entry; the handle is the byte string data and
\* the read position pos.
read_var_int_init(data, pos) ==
    [res |-> BigOfInt(0), shift |-> BigOfInt(1), data |-> data, pos |-> pos,
     pc |-> "loop"]

\* One pass of the `while True` body of read_var_int.  handle.read(1) at the
\* end of the data returns b'' and indexing it raises IndexError.
read_var_int_pass(r) ==
    IF r.pos >= Len(r.data) THEN [r EXCEPT !.pc = "IndexError"]
    ELSE LET byte == r.data[r.pos + 1]
             res1 == BigAdd(r.res, BigMk(FALSE, MagMulC(r.shift.mag, byte % 128, 0)))
             sh1  == BigMk(FALSE, <<0>> \o r.shift.mag)
         IN  IF byte >= 128
             THEN [r EXCEPT !.res = res1, !.pos = r.pos + 1, !.pc = "return"]
             ELSE [r EXCEPT !.res = BigAdd(res1, sh1), !.shift = sh1,
                            !.pos = r.pos + 1]

RECURSIVE read_var_int_run(_)
read_var_int_run(r) ==
    IF r.pc # "loop" THEN r ELSE read_var_int_run(read_var_int_pass(r))

read_var_int(data, pos) == read_var_int_run(read_var_int_init(data, pos))

(***************************************************************************)
(* blip/constants.py.  A patch instruction is a tuple whose first element  *)
(* is its opcode (the magic, for the header); At(item, i) is Python's      *)
(* item[i].                                                                *)
(***************************************************************************)
BLIP_MAGIC  == "blip"
SOURCEREAD  == "sourceread"
TARGETREAD  == "targetread"
SOURCECOPY  == "sourcecopy"
TARGETCOPY  == "targetcopy"
SOURCECRC32 == "sourcecrc32"
TARGETCRC32 == "targetcrc32"

At(item, i) == item[i + 1]

HunkOps == {SOURCEREAD, TARGETREAD, SOURCECOPY, TARGETCOPY}
CopyOps == {SOURCECOPY, TARGETCOPY}

\* 2**32 as a magnitude: 16 * 128**4.
Mag2Pow32 == <<0, 0, 0, 0, 16>>

(***************************************************************************)
(* blip/validate.py.  Each check yields the CorruptFile message it raises, *)
(* or NoError.                                                             *)
(***************************************************************************)
NoError == "none"

check_param_count(item, count) ==
    IF Len(item) - 1 # count THEN "requires parameter(s)" ELSE NoError

check_length(item) ==
    IF At(item, 1) <= 0 THEN "must be greater than zero" ELSE NoError

\* _check_crc32, lines 52-75; the first form takes either CRC opcode, as
\* blip/io.py's does.
check_crc32_either(item, expectedOpcode) ==
    IF check_param_count(item, 1) # NoError THEN check_param_count(item, 1)
    ELSE IF At(item, 0) \notin {SOURCECRC32, TARGETCRC32} THEN "expected " \o expectedOpcode
    ELSE IF At(item, 1).neg THEN "bad crc32: must be at least zero"
    ELSE IF ~MagLess(At(item, 1).mag, Mag2Pow32) THEN "bad crc32: must be less than 2**32"
    ELSE NoError
check_crc32(item, expectedOpcode) ==
    IF check_param_count(item, 1) # NoError THEN check_param_count(item, 1)
    ELSE IF At(item, 0) # expectedOpcode THEN "expected " \o expectedOpcode
    ELSE IF At(item, 1).neg THEN "bad crc32: must be at least zero"
    ELSE IF ~MagLess(At(item, 1).mag, Mag2Pow32) THEN "bad crc32: must be less than 2**32"
    ELSE NoError

\* The checks of check_stream on the header, lines 102-132.
check_header(header) ==
    IF Len(header) # 4 THEN "bad header: must have exactly 4 items"
    ELSE IF At(header, 0) # BLIP_MAGIC THEN "bad magic"
    ELSE IF At(header, 1).neg THEN "source size must be at least zero"
    ELSE IF At(header, 2) < 0 THEN "target size must be at least zero"
    ELSE NoError

\* The SOURCEREAD branch, lines 145-156; the first form leaves out the
\* test of line 152.
check_sourceread_unbounded(c, item) ==
    IF check_param_count(item, 1) # NoError THEN check_param_count(item, 1)
    ELSE IF check_length(item) # NoError THEN check_length(item)
    ELSE NoError
check_sourceread(c, item) ==
    IF check_param_count(item, 1) # NoError THEN check_param_count(item, 1)
    ELSE IF check_length(item) # NoError THEN check_length(item)
    ELSE IF BigLess(c.sourceSize, BigOfInt(c.targetWriteOffset + At(item, 1)))
         THEN "reads past the end of the source file"
    ELSE NoError

\* The TARGETREAD branch, lines 158-170.
check_targetread(c, item) ==
    IF check_param_count(item, 1) # NoError THEN check_param_count(item, 1)
    ELSE IF Len(At(item, 1)) = 0 THEN "targetread data must not be empty"
    ELSE NoError

\* The SOURCECOPY branch, lines 172-192.
check_sourcecopy(c, item) ==
    IF check_param_count(item, 2) # NoError THEN check_param_count(item, 2)
    ELSE IF check_length(item) # NoError THEN check_length(item)
    ELSE IF c.sourceRelativeOffset + At(item, 2) < 0
         THEN "reads from before the beginning of the source file"
    ELSE IF BigLess(c.sourceSize,
                    BigOfInt(c.sourceRelativeOffset + At(item, 2) + At(item, 1)))
         THEN "reads past the end of the source file"
    ELSE NoError

\* The TARGETCOPY branch, lines 194-216.
check_targetcopy(c, item) ==
    IF check_param_count(item, 2) # NoError THEN check_param_count(item, 2)
    ELSE IF check_length(item) # NoError THEN check_length(item)
    ELSE IF c.targetRelativeOffset + At(item, 2) < 0
         THEN "reads from before the beginning of the target file"
    ELSE IF c.targetRelativeOffset + At(item, 2) >= c.targetWriteOffset
         THEN "reads past the end of the written part of the target file"
    ELSE NoError

\* The error of the branch of the hunk loop that item takes.
check_hunk(c, item) ==
    IF At(item, 0) = SOURCEREAD THEN check_sourceread(c, item)
    ELSE IF At(item, 0) = TARGETREAD THEN check_targetread(c, item)
    ELSE IF At(item, 0) = SOURCECOPY THEN check_sourcecopy(c, item)
    ELSE IF At(item, 0) = TARGETCOPY THEN check_targetcopy(c, item)
    ELSE "unknown opcode"

\* The assignments of that branch, for an item that passed check_hunk.
advance_hunk(c, item) ==
    IF At(item, 0) = SOURCEREAD
    THEN [c EXCEPT !.targetWriteOffset = @ + At(item, 1)]
    ELSE IF At(item, 0) = TARGETREAD
    THEN [c EXCEPT !.targetWriteOffset = @ + Len(At(item, 1))]
    ELSE IF At(item, 0) = SOURCECOPY
    THEN [c EXCEPT !.sourceRelativeOffset = @ + At(item, 1) + At(item, 2),
                   !.targetWriteOffset = @ + At(item, 1)]
    ELSE [c EXCEPT !.targetRelativeOffset = @ + At(item, 1) + At(item, 2),
                   !.targetWriteOffset = @ + At(item, 1)]

\* The generator object check_stream(iterable) before its first resumption.
check_stream_init ==
    [pc |-> "start", sourceSize |-> BigOfInt(0), targetSize |-> 0,
     targetWriteOffset |-> 0, sourceRelativeOffset |-> 0,
     targetRelativeOffset |-> 0, error |-> NoError]

\* What next(iterable) gives: an item, or StopIteration.
Gives(item) == [stop |-> FALSE, item |-> item]
StopIteration == [stop |-> TRUE]

Raises(c, message) ==
    [cs |-> [c EXCEPT !.pc = "raised", !.error = message], yield |-> <<>>]
Yields_nothing(c, pc, item) ==
    [cs |-> [c EXCEPT !.pc = pc], yield |-> <<>>]
Yields(c, pc, item) ==
    [cs |-> [c EXCEPT !.pc = pc], yield |-> <<item>>]

\* _check_next when next(iterable) raises StopIteration: the generator
\* raises CorruptFile instead.
check_next_stop_escapes(c) ==
    [cs |-> [c EXCEPT !.pc = "StopIteration"], yield |-> <<>>]
check_next_stop(c) == Raises(c, "truncated patch")

\* The test of line 222, after the hunk's branch has advanced the offsets.
writes_past_target_unchecked(c) == FALSE
writes_past_target(c) == c.targetWriteOffset > c.targetSize

\* One resumption of the generator: it takes `g` from the iterable and
\* runs to its next yield, to its return or to the exception it raises.
check_stream_resume(c, g) ==
    IF c.pc = "start"
    THEN \* lines 100-134
         IF g.stop THEN check_next_stop(c)
         ELSE IF check_header(g.item) # NoError
              THEN Raises(c, check_header(g.item))
         ELSE Yields([c EXCEPT !.sourceSize = At(g.item, 1),
                               !.targetSize = At(g.item, 2)],
                     "yield header", g.item)
    ELSE IF c.pc \in {"yield header", "yield item"}
            /\ c.targetWriteOffset < c.targetSize
    THEN \* lines 142-226
         IF g.stop THEN check_next_stop(c)
         ELSE IF check_hunk(c, g.item) # NoError
              THEN Raises(c, check_hunk(c, g.item))
         ELSE LET c1 == advance_hunk(c, g.item)
              IN  IF writes_past_target(c1)
                  THEN Raises(c1, "writes past the end of the target")
                  ELSE Yields(c1, "yield item", g.item)
    ELSE IF c.pc \in {"yield header", "yield item"}
    THEN \* lines 228-230
         IF g.stop THEN check_next_stop(c)
         ELSE IF check_crc32(g.item, SOURCECRC32) # NoError
              THEN Raises(c, check_crc32(g.item, SOURCECRC32))
         ELSE Yields(c, "yield sourcecrc32", g.item)
    ELSE IF c.pc = "yield sourcecrc32"
    THEN \* lines 232-234
         IF g.stop THEN check_next_stop(c)
         ELSE IF check_crc32(g.item, TARGETCRC32) # NoError
              THEN Raises(c, check_crc32(g.item, TARGETCRC32))
         ELSE Yields(c, "yield targetcrc32", g.item)
    ELSE \* c.pc = "yield targetcrc32", lines 237-242
         IF g.stop THEN [cs |-> [c EXCEPT !.pc = "returned"], yield |-> <<>>]
         ELSE Raises(c, "trailing garbage in stream")

\* blip/util.py op_size: the bytes an instruction writes; 0 stands for the
\* None it returns for the header and the CRC instructions.
op_size(op) ==
    IF At(op, 0) \in {SOURCEREAD, SOURCECOPY, TARGETCOPY} THEN At(op, 1)
    ELSE IF At(op, 0) = TARGETREAD THEN Len(At(op, 1))
    ELSE 0

(***************************************************************************)
(* zlib.crc32 and struct.pack / unpack, as blip/io.py and blip/util.py use *)
(* them.  A 32-bit value is handled as its two 16-bit halves <<lo, hi>>.   *)
(***************************************************************************)
\* value & 0xffffffff of a magnitude, as halves.
HalvesOfMag(m) ==
    << Digit(m, 1) + 128 * Digit(m, 2) + 16384 * (Digit(m, 3) % 4),
       (Digit(m, 3) \div 4) + 32 * Digit(m, 4) + 4096 * (Digit(m, 5) % 16) >>

MagOfHalves(h) ==
    MagNorm(<< h[1] % 128, (h[1] \div 128) % 128,
               (h[1] \div 16384) + 4 * (h[2] % 32),
               (h[2] \div 32) % 128, h[2] \div 4096 >>)

\* Bit i of a ^ b, in place.
XorBit(a, b, i) == (((a \div (2 ^ i)) + (b \div (2 ^ i))) % 2) * (2 ^ i)

\* a ^ b for 0 <= a, b < 256.
BitXor8(a, b) ==
    XorBit(a, b, 0) + XorBit(a, b, 1) + XorBit(a, b, 2) + XorBit(a, b, 3)
    + XorBit(a, b, 4) + XorBit(a, b, 5) + XorBit(a, b, 6) + XorBit(a, b, 7)

\* a ^ b for 0 <= a, b < 65536.
BitXor16(a, b) == BitXor8(a % 256, b % 256) + 256 * BitXor8(a \div 256, b \div 256)

\* 0xEDB88320, the reflected CRC-32 polynomial, as halves.
CRC32Poly == <<33568, 60856>>

\* crc = (crc >> 1) ^ 0xEDB88320 if crc & 1 else crc >> 1
Crc32Shift(crc) ==
    LET lo == (crc[1] \div 2) + 32768 * (crc[2] % 2)
        hi == crc[2] \div 2
    IN  IF crc[1] % 2 = 1
        THEN <<BitXor16(lo, CRC32Poly[1]), BitXor16(hi, CRC32Poly[2])>>
        ELSE <<lo, hi>>

\* zlib's table: entry i is i after eight shifts.
Crc32Table ==
    [i \in 0..255 |->
        Crc32Shift(Crc32Shift(Crc32Shift(Crc32Shift(
        Crc32Shift(Crc32Shift(Crc32Shift(Crc32Shift(<<i, 0>>))))))))]

\* table[(crc ^ b) & 0xff] ^ (crc >> 8), for the table's entry t.
Crc32Mix(t, crc) ==
    <<BitXor16(t[1], (crc[1] \div 256) + 256 * (crc[2] % 256)),
      BitXor16(t[2], crc[2] \div 256)>>

RECURSIVE Crc32Bytes(_, _, _)
\* The register after data[i ..].  The register is a pair of naturals; it
\* is looked at in every pass, so that it is computed pass by pass.
Crc32Bytes(crc, data, i) ==
    IF i > Len(data) \/ crc[1] < 0 THEN crc
    ELSE Crc32Bytes(Crc32Mix(Crc32Table[BitXor8(crc[1] % 256, data[i])], crc),
                    data, i + 1)

HalvesNot(h) == <<65535 - h[1], 65535 - h[2]>>

\* zlib.crc32(data, value), on unbounded integers.
crc32(data, value) ==
    BigMk(FALSE, MagOfHalves(HalvesNot(Crc32Bytes(HalvesNot(HalvesOfMag(value.mag)), data, 1))))

\* struct.pack("I", value) for 0 <= value < 2**32, least significant byte first.
pack_I(value) ==
    LET h == HalvesOfMag(value.mag)
    IN  <<h[1] % 256, h[1] \div 256, h[2] % 256, h[2] \div 256>>

\* struct.unpack("I", data)[0] for four bytes.
unpack_I(data) ==
    BigMk(FALSE, MagOfHalves(<<data[1] + 256 * data[2], data[3] + 256 * data[4]>>))

(***************************************************************************)
(* str.encode('utf-8') and bytes.decode('utf-8') for code points below     *)
(* 0x800.                                                                  *)
(***************************************************************************)
RECURSIVE utf8_encode(_)
utf8_encode(text) ==
    IF text = <<>> THEN <<>>
    ELSE (IF Head(text) < 128 THEN <<Head(text)>>
          ELSE <<192 + (Head(text) \div 64), 128 + (Head(text) % 64)>>)
         \o utf8_encode(Tail(text))

RECURSIVE utf8_decode(_)
utf8_decode(data) ==
    IF data = <<>> THEN <<>>
    ELSE IF Head(data) < 128 \/ Len(data) < 2
         THEN <<Head(data)>> \o utf8_decode(Tail(data))
         ELSE <<(Head(data) - 192) * 64 + (data[2] - 128)>> \o utf8_decode(Tail(Tail(data)))

(***************************************************************************)
(* blip/io.py: write_blip and read_blip.                                   *)
(***************************************************************************)
OP_SOURCEREAD == 0
OP_TARGETREAD == 1
OP_SOURCECOPY == 2
OP_TARGETCOPY == 3
OPCODEMASK == 3
OPCODESHIFT == 2

\* b'blip'
BLIP_MAGIC_BYTES == <<98, 108, 105, 112>>

\* CRCIOWrapper.write: the inner write, with the running CRC updated.
\* Nothing is written once write_blip has raised.
wrapper_write(w, data) ==
    IF w.pc # "running" THEN w
    ELSE [w EXCEPT !.out_buf = @ \o data, !.crc32 = crc32(data, @)]

\* util.write_var_int(number, out_buf); encode_var_int may not return.
write_var_int(w, number) ==
    IF w.pc # "running" THEN w
    ELSE IF encode_var_int(number).pc = "return"
    THEN wrapper_write(w, encode_var_int(number).buf)
    ELSE [w EXCEPT !.pc = "encode_var_int does not return"]

\* The value written for a copy offset: (abs(offset) << 1) | (offset < 0).
copy_offset_value(offset) == IF offset < 0 THEN (0 - offset) * 2 + 1 ELSE offset * 2

\* The hunk's first value: ((length - 1) << OPCODESHIFT) | opcode.
hunk_value(length, opcode) == (length - 1) * (2 ^ OPCODESHIFT) + opcode

write_blip_init ==
    [pc |-> "start", out_buf |-> <<>>, crc32 |-> BigOfInt(0),
     allowedEvents |-> {SOURCECRC32} \cup HunkOps, taken |-> 0]

\* write_blip from its start to the end of the header, lines 292-315;
\* `first` is what next(iterable) gives.
write_blip_header(first) ==
    IF first.stop THEN [write_blip_init EXCEPT !.pc = "StopIteration"]
    ELSE IF Len(first.item) # 4
         THEN [write_blip_init EXCEPT !.pc = "ValueError", !.taken = 1]
    ELSE IF At(first.item, 0) # BLIP_MAGIC
         THEN [write_blip_init EXCEPT !.pc = "CorruptFile", !.taken = 1]
    ELSE wrapper_write(
            write_var_int(
                write_var_int(
                    write_var_int(
                        wrapper_write([write_blip_init EXCEPT !.pc = "running",
                                                              !.taken = 1],
                                      BLIP_MAGIC_BYTES),
                        At(first.item, 1)),
                    BigOfInt(At(first.item, 2))),
                BigOfInt(Len(utf8_encode(At(first.item, 3))))),
            utf8_encode(At(first.item, 3)))

\* The body of `for item in iterable`, lines 317-365.
write_blip_item_lax(w, item) ==
    IF At(item, 0) \notin w.allowedEvents THEN [w EXCEPT !.pc = "CorruptFile"]
    ELSE IF At(item, 0) = SOURCEREAD
    THEN write_var_int(w, BigOfInt(hunk_value(At(item, 1), OP_SOURCEREAD)))
    ELSE IF At(item, 0) = TARGETREAD
    THEN wrapper_write(
            write_var_int(w, BigOfInt(hunk_value(Len(At(item, 1)), OP_TARGETREAD))),
            At(item, 1))
    ELSE IF At(item, 0) \in CopyOps
    THEN write_var_int(
            write_var_int(w, BigOfInt(hunk_value(At(item, 1),
                                                 IF At(item, 0) = SOURCECOPY
                                                 THEN OP_SOURCECOPY ELSE OP_TARGETCOPY))),
            BigOfInt(copy_offset_value(At(item, 2))))
    ELSE [wrapper_write(w, pack_I(At(item, 1))) EXCEPT
            !.allowedEvents = IF At(item, 0) = SOURCECRC32
                             THEN w.allowedEvents \cup {TARGETCRC32} ELSE {}]
write_blip_item(w, item) ==
    IF At(item, 0) \notin w.allowedEvents THEN [w EXCEPT !.pc = "CorruptFile"]
    ELSE IF At(item, 0) = SOURCEREAD
    THEN write_var_int(w, BigOfInt(hunk_value(At(item, 1), OP_SOURCEREAD)))
    ELSE IF At(item, 0) = TARGETREAD
    THEN wrapper_write(
            write_var_int(w, BigOfInt(hunk_value(Len(At(item, 1)), OP_TARGETREAD))),
            At(item, 1))
    ELSE IF At(item, 0) \in CopyOps
    THEN write_var_int(
            write_var_int(w, BigOfInt(hunk_value(At(item, 1),
                                                 IF At(item, 0) = SOURCECOPY
                                                 THEN OP_SOURCECOPY ELSE OP_TARGETCOPY))),
            BigOfInt(copy_offset_value(At(item, 2))))
    ELSE [wrapper_write(w, pack_I(At(item, 1))) EXCEPT
            !.allowedEvents = IF At(item, 0) = SOURCECRC32 THEN {TARGETCRC32} ELSE {}]

\* After the loop, lines 367-372.
write_blip_end(w) ==
    IF w.allowedEvents # {} THEN [w EXCEPT !.pc = "CorruptFile"]
    ELSE [wrapper_write(w, pack_I(w.crc32)) EXCEPT !.pc = "returned"]

\* One step of write_blip: g is what the iterable gives it next.
write_blip_step(w, g) ==
    IF w.pc = "start" THEN write_blip_header(g)
    ELSE IF g.stop THEN write_blip_end(w)
    ELSE write_blip_item([w EXCEPT !.taken = @ + 1], g.item)

\* CRCIOWrapper.read(size) on the reader r: the bytes it returns; the
\* position and the running CRC move past them.
wrapper_read_data(r, size) ==
    SubSeq(r.data, r.pos + 1, Min(r.pos + size, Len(r.data)))

wrapper_read(r, size) ==
    [r EXCEPT !.pos = Min(r.pos + size, Len(r.data)),
              !.crc32 = crc32(wrapper_read_data(r, size), @)]

\* util.read_var_int(in_buf): the reader afterwards, holding the value read.
\* Nothing is read once read_blip has raised.
reader_var_int(r) ==
    IF r.pc = "IndexError" THEN r
    ELSE LET v == read_var_int(r.data, r.pos)
         IN  [r EXCEPT !.pos = v.pos,
                       !.crc32 = crc32(SubSeq(r.data, r.pos + 1, v.pos), @),
                       !.pc = IF v.pc = "return" THEN r.pc ELSE "IndexError",
                       !.value = v.res]

\* A reader that yields the item.
reader_yield(r, pc, item) == [r EXCEPT !.pc = pc, !.yielded = Append(@, item)]

read_blip_init(data) ==
    [pc |-> "start", data |-> data, pos |-> 0, crc32 |-> BigOfInt(0),
     value |-> BigOfInt(0), sourcesize |-> BigOfInt(0),
     targetoffset |-> 0, targetsize |-> 0, length |-> 0, yielded |-> <<>>]

\* sourcesize = util.read_var_int(in_buf), line 228, and targetsize, line 229.
read_blip_sourcesize(r) == [r EXCEPT !.sourcesize = r.value]
read_blip_targetsize(r) == [r EXCEPT !.targetsize = IntOfBig(r.value)]

\* Lines 231-233, after metadatasize has been read.
read_blip_metadata(r) ==
    IF r.pc = "IndexError" THEN r
    ELSE reader_yield(wrapper_read(r, IntOfBig(r.value)), "yield header",
                      <<BLIP_MAGIC, r.sourcesize, r.targetsize,
                        utf8_decode(wrapper_read_data(r, IntOfBig(r.value)))>>)

\* read_blip up to its first yield, lines 219-233.
read_blip_header(r) ==
    IF wrapper_read_data(r, 4) # BLIP_MAGIC_BYTES
    THEN [wrapper_read(r, 4) EXCEPT !.pc = "CorruptFile"]
    ELSE read_blip_metadata(
            reader_var_int(
                read_blip_targetsize(
                    reader_var_int(
                        read_blip_sourcesize(
                            reader_var_int(wrapper_read(r, 4)))))))

\* Lines 247-259: the copy's offset has been read; its lowest bit is its sign.
read_blip_copy(r, opcode, length) ==
    IF r.pc = "IndexError" THEN r
    ELSE reader_yield([r EXCEPT !.length = length], "yield hunk",
                      <<opcode, length,
                        IF IntOfBig(r.value) % 2 = 1 THEN 0 - (IntOfBig(r.value) \div 2)
                        ELSE IntOfBig(r.value) \div 2>>)

\* Lines 238-259: the hunk's first value has been read.
read_blip_opcode(r, opcode, length) ==
    IF r.pc = "IndexError" THEN r
    ELSE IF opcode = OP_SOURCEREAD
    THEN reader_yield([r EXCEPT !.length = length], "yield hunk",
                      <<SOURCEREAD, length>>)
    ELSE IF opcode = OP_TARGETREAD
    THEN reader_yield([wrapper_read(r, length) EXCEPT !.length = length],
                      "yield hunk", <<TARGETREAD, wrapper_read_data(r, length)>>)
    ELSE read_blip_copy(reader_var_int(r),
                        IF opcode = OP_SOURCECOPY THEN SOURCECOPY ELSE TARGETCOPY,
                        length)

\* What the loop body does once read_var_int has run: the opcode is
\* value & OPCODEMASK and the length (value >> OPCODESHIFT) + 1, lines 238-239.
read_blip_value(r) ==
    IF r.pc = "IndexError" THEN r
    ELSE read_blip_opcode(r, IntOfBig(r.value) % (OPCODEMASK + 1),
                          (IntOfBig(r.value) \div (2 ^ OPCODESHIFT)) + 1)

\* One CRC of the footer, lines 269-270; unpack fails on fewer than 4 bytes.
read_blip_crc(r, opcode) ==
    IF Len(wrapper_read_data(r, 4)) # 4 THEN [wrapper_read(r, 4) EXCEPT !.pc = "struct.error"]
    ELSE reader_yield(wrapper_read(r, 4), "yield " \o opcode,
                      <<opcode, unpack_I(wrapper_read_data(r, 4))>>)

\* The patch's own CRC, lines 272-280; the first form leaves out the test
\* of line 276.
read_blip_end_unchecked(r) ==
    [wrapper_read(r, 4) EXCEPT
        !.pc = IF Len(wrapper_read_data(r, 4)) # 4 THEN "struct.error" ELSE "returned"]
read_blip_end(r) ==
    [wrapper_read(r, 4) EXCEPT
        !.pc = IF Len(wrapper_read_data(r, 4)) # 4 THEN "struct.error"
               ELSE IF unpack_I(wrapper_read_data(r, 4)) # r.crc32 THEN "CorruptFile"
               ELSE "returned"]

\* The loop test of line 236 and what follows it: one pass of
\* `while targetoffset < targetsize` up to its yield, lines 237-259, or the
\* first CRC of the footer.
read_blip_loop(r) ==
    IF r.targetoffset < r.targetsize THEN read_blip_value(reader_var_int(r))
    ELSE read_blip_crc(r, SOURCECRC32)

\* One resumption of the generator read_blip(in_buf), from its start or
\* from the yield it is suspended at to the next yield, return or raise.
\* After a hunk's yield it resumes at targetoffset += length, line 266.
read_blip_resume(r) ==
    IF r.pc = "start" THEN read_blip_header(r)
    ELSE IF r.pc \in {"yield header", "yield hunk"}
    THEN read_blip_loop([r EXCEPT !.targetoffset = @ + r.length, !.length = 0])
    ELSE IF r.pc = "yield sourcecrc32" THEN read_blip_crc(r, TARGETCRC32)
    ELSE read_blip_end(r)

(***************************************************************************)
(* Python's indexing, as bps/diff.py and blip/apply.py use it on byte      *)
(* strings: offsets count from 0, a negative index counts from the end,    *)
(* and a slice is clamped to the sequence.                                 *)
(***************************************************************************)
slice_index(i, len) == IF i < 0 THEN Max(i + len, 0) ELSE Min(i, len)

\* data[start:end]
PySlice(data, start, end) ==
    SubSeq(data, slice_index(start, Len(data)) + 1, slice_index(end, Len(data)))

\* buf[start:end] = data, which may change the length of buf.
PySliceAssign(buf, start, end, data) ==
    SubSeq(buf, 1, slice_index(start, Len(buf)))
    \o data
    \o SubSeq(buf, Max(slice_index(start, Len(buf)), slice_index(end, Len(buf))) + 1,
              Len(buf))

\* The position of buf[i] in the sequence, 0 if buf[i] raises IndexError.
item_index(i, len) ==
    IF 0 <= i /\ i < len THEN i + 1
    ELSE IF i < 0 /\ i + len >= 0 THEN i + len + 1
    ELSE 0

(***************************************************************************)
(* bps/diff.py.  Operations are the tuples of the blip modules, with the   *)
(* opcode first; bps/operations.py encodes a hunk as blip/io.py writes it. *)
(* A BlockMap is the list of the <<block, offset>> pairs added to it, in   *)
(* the order they were added.                                              *)
(***************************************************************************)
RECURSIVE iter_blocks(_, _, _)
\* list(iter_blocks(data, blocksize)), from the local `offset` on.
iter_blocks(data, blocksize, offset) ==
    IF offset < Len(data)
    THEN <<  <<PySlice(data, offset, offset + blocksize), offset>>  >>
         \o iter_blocks(data, blocksize,
                        offset + Len(PySlice(data, offset, offset + blocksize)))
    ELSE <<>>

RECURSIVE blockmap_get(_, _)
\* blockmap.get(block, [])
blockmap_get(blockmap, block) ==
    IF blockmap = <<>> THEN <<>>
    ELSE (IF Head(blockmap)[1] = block THEN <<Head(blockmap)[2]>> ELSE <<>>)
         \o blockmap_get(Tail(blockmap), block)

RECURSIVE measure_backwards(_, _, _, _, _)
\* The first loop of measure_op, lines 39-50: <<pendingTargetReadSize, sourceoffset>>.
measure_backwards(pendingTargetReadSize, blocksrc, sourceoffset, target, targetoffset) ==
    IF \/ sourceoffset <= 0
       \/ targetoffset + pendingTargetReadSize <= 0
       \/ pendingTargetReadSize <= 0
    THEN <<pendingTargetReadSize, sourceoffset>>
    ELSE IF blocksrc[sourceoffset] # target[targetoffset + pendingTargetReadSize]
    THEN <<pendingTargetReadSize, sourceoffset>>
    ELSE measure_backwards(pendingTargetReadSize - 1, blocksrc, sourceoffset - 1,
                           target, targetoffset)

RECURSIVE measure_forwards(_, _, _, _, _)
\* The second loop of measure_op, lines 66-71: bytespan.
measure_forwards(blocksrc, sourceoffset, target, targetoffset, bytespan) ==
    IF blocksrc[sourceoffset + bytespan + 1] # target[targetoffset + bytespan + 1]
    THEN bytespan
    ELSE IF \/ sourceoffset + bytespan + 1 >= Len(blocksrc)
            \/ targetoffset + bytespan + 1 >= Len(target)
    THEN bytespan + 1
    ELSE measure_forwards(blocksrc, sourceoffset, target, targetoffset, bytespan + 1)

\* measure_op from line 52 on; backwards is what the first loop left of
\* pendingTargetReadSize and sourceoffset.  The first form leaves out the
\* test of line 73.
measure_result_copying(backwards, blocksrc, target, targetoffset, op) ==
    (IF backwards[1] # 0
     THEN <<  <<TARGETREAD, PySlice(target, targetoffset, targetoffset + backwards[1])>>  >>
     ELSE <<>>)
    \o <<  <<op,
             measure_forwards(blocksrc, backwards[2], target,
                              targetoffset + backwards[1], 0),
             backwards[2]>>  >>
measure_result(backwards, blocksrc, target, targetoffset, op) ==
    (IF backwards[1] # 0
     THEN <<  <<TARGETREAD, PySlice(target, targetoffset, targetoffset + backwards[1])>>  >>
     ELSE <<>>)
    \o <<  IF op = SOURCECOPY /\ backwards[2] = targetoffset + backwards[1]
           THEN <<SOURCEREAD,
                  measure_forwards(blocksrc, backwards[2], target,
                                   targetoffset + backwards[1], 0)>>
           ELSE <<op,
                  measure_forwards(blocksrc, backwards[2], target,
                                   targetoffset + backwards[1], 0),
                  backwards[2]>>  >>

measure_op(pendingTargetReadSize, blocksrc, sourceoffset, target, targetoffset, op) ==
    measure_result(measure_backwards(pendingTargetReadSize, blocksrc, sourceoffset,
                                     target, targetoffset),
                   blocksrc, target, targetoffset, op)

\* len(util.encode_var_int(number))
var_int_size(number) == Len(encode_var_int(BigOfInt(number)).buf)

\* len(op.encode(lastSourceCopyOffset, lastTargetCopyOffset)), bps/operations.py.
encoding_size(op, lastSourceCopyOffset, lastTargetCopyOffset) ==
    IF At(op, 0) = SOURCEREAD THEN var_int_size(hunk_value(At(op, 1), OP_SOURCEREAD))
    ELSE IF At(op, 0) = TARGETREAD
    THEN var_int_size(hunk_value(Len(At(op, 1)), OP_TARGETREAD)) + Len(At(op, 1))
    ELSE IF At(op, 0) = SOURCECOPY
    THEN var_int_size(hunk_value(At(op, 1), OP_SOURCECOPY))
         + var_int_size(copy_offset_value(At(op, 2) - lastSourceCopyOffset))
    ELSE var_int_size(hunk_value(At(op, 1), OP_TARGETCOPY))
         + var_int_size(copy_offset_value(At(op, 2) - lastTargetCopyOffset))

RECURSIVE op_efficiency(_, _, _, _)
\* total_bytespan / total_encoding_size, as the pair of the two totals;
\* `totals` is <<total_bytespan, total_encoding_size>> before `for op in oplist`.
op_efficiency(oplist, lastSourceCopyOffset, lastTargetCopyOffset, totals) ==
    IF oplist = <<>> THEN totals
    ELSE op_efficiency(Tail(oplist), lastSourceCopyOffset, lastTargetCopyOffset,
                       <<totals[1] + op_size(Head(oplist)),
                         totals[2] + encoding_size(Head(oplist), lastSourceCopyOffset,
                                                   lastTargetCopyOffset)>>)

\* Lines 158-163 and 173-178: `efficiency > bestOpEfficiency` on the two
\* quotients, and the candidate kept if it holds.
best_with(best, candidate, d) ==
    LET efficiency == op_efficiency(candidate, d.lastSourceCopyOffset,
                                    d.lastTargetCopyOffset, <<0, 0>>)
    IN  IF efficiency[1] * best.bestOpEfficiency[2]
              > best.bestOpEfficiency[1] * efficiency[2]
        THEN [bestOpList |-> candidate, bestOpEfficiency |-> efficiency]
        ELSE best

RECURSIVE search_offsets(_, _, _, _, _, _)
\* `for sourceOffset in sourcemap.get(block, [])`, lines 150-163, and the
\* same for targetmap, lines 165-178.
search_offsets(best, offsets, d, pending, blocksrc, op) ==
    IF offsets = <<>> THEN best
    ELSE search_offsets(
            best_with(best,
                      measure_op(pending, blocksrc, Head(offsets), d.target,
                                 d.targetWriteOffset, op),
                      d),
            Tail(offsets), d, pending, blocksrc, op)

\* target[blockstart:blockend], lines 146-148.
block_at(d, extraOffset) ==
    PySlice(d.target,
            d.targetWriteOffset + d.pendingTargetReadSize + extraOffset,
            d.targetWriteOffset + d.pendingTargetReadSize + extraOffset + d.blocksize)

RECURSIVE search_blocks(_, _, _)
\* `for extraOffset in range(blocksize)`, lines 145-178.  sourcemap holds
\* every block of the source, targetmap the first d.targetblocks blocks of
\* the target.
search_blocks(best, d, extraOffset) ==
    IF extraOffset >= d.blocksize THEN best
    ELSE search_blocks(
            search_offsets(
                search_offsets(best,
                               blockmap_get(iter_blocks(d.source, d.blocksize, 0),
                                            block_at(d, extraOffset)),
                               d, d.pendingTargetReadSize + extraOffset, d.source,
                               SOURCECOPY),
                blockmap_get(SubSeq(iter_blocks(d.target, d.blocksize, 0), 1,
                                    d.targetblocks),
                             block_at(d, extraOffset)),
                d, d.pendingTargetReadSize + extraOffset, d.target, TARGETCOPY),
            d, extraOffset + 1)

\* diff_bytearrays(source, target) before its first resumption.
diff_init(source, target) ==
    [pc |-> "start", source |-> source, target |-> target,
     blocksize |-> (Len(source) + Len(target)) \div BlockDivisor + 1,
     targetWriteOffset |-> 0, lastSourceCopyOffset |-> 0, lastTargetCopyOffset |-> 0,
     targetblocks |-> 0, nextTargetBlockOffset |-> 0, pendingTargetReadSize |-> 0,
     bestOpList |-> <<>>, yielded |-> <<>>]

\* The generator suspended at a yield of item.
diff_yield(d, pc, item) == [d EXCEPT !.pc = pc, !.yielded = Append(@, item)]

\* Lines 207-212, after the main loop.
diff_after_loop(d) ==
    IF d.pendingTargetReadSize # 0
    THEN diff_yield(d, "yield targetread",
                    <<TARGETREAD, PySlice(d.target,
                                          Len(d.target) - d.pendingTargetReadSize,
                                          Len(d.target))>>)
    ELSE diff_yield(d, "yield sourcecrc32",
                    <<SOURCECRC32, crc32(d.source, BigOfInt(0))>>)

RECURSIVE diff_loop(_)
\* The main loop from its test, line 140, to the next yield: lines 180-186
\* when nothing was found, the first yield of line 189 when something was.
diff_loop(d) ==
    IF d.pc = "StopIteration" THEN d
    ELSE IF d.targetWriteOffset + d.pendingTargetReadSize < Len(d.target)
    THEN LET best == search_blocks([bestOpList |-> <<>>, bestOpEfficiency |-> <<0, 1>>],
                                   d, 0)
         IN  IF best.bestOpList = <<>>
             THEN diff_loop([d EXCEPT !.pendingTargetReadSize = @ + d.blocksize])
             ELSE diff_yield([d EXCEPT !.bestOpList = best.bestOpList], "yield op",
                             Head(best.bestOpList))
    ELSE diff_after_loop(d)

\* Lines 191-196, on resuming after the yield of an op.
diff_after_op(d) ==
    [d EXCEPT !.targetWriteOffset = @ + op_size(Head(d.bestOpList)),
              !.lastTargetCopyOffset =
                  IF At(Head(d.bestOpList), 0) = TARGETCOPY
                  THEN At(Head(d.bestOpList), 2) + At(Head(d.bestOpList), 1) ELSE @,
              !.lastSourceCopyOffset =
                  IF At(Head(d.bestOpList), 0) = SOURCECOPY
                  THEN At(Head(d.bestOpList), 2) + At(Head(d.bestOpList), 1) ELSE @,
              !.bestOpList = Tail(@)]

RECURSIVE diff_backlog(_)
\* Lines 202-205; next(targetblocks) raises StopIteration once the blocks
\* of the target are used up.
diff_backlog_eager(d) ==
    IF d.targetWriteOffset - d.nextTargetBlockOffset < 0 THEN d
    ELSE IF d.targetblocks >= Len(iter_blocks(d.target, d.blocksize, 0))
    THEN [d EXCEPT !.pc = "StopIteration"]
    ELSE diff_backlog(
            [d EXCEPT !.targetblocks = @ + 1,
                      !.nextTargetBlockOffset =
                          iter_blocks(d.target, d.blocksize, 0)[d.targetblocks + 1][2]
                          + Len(iter_blocks(d.target, d.blocksize, 0)[d.targetblocks + 1][1])])
diff_backlog(d) ==
    IF d.targetWriteOffset - d.nextTargetBlockOffset < d.blocksize THEN d
    ELSE IF d.targetblocks >= Len(iter_blocks(d.target, d.blocksize, 0))
    THEN [d EXCEPT !.pc = "StopIteration"]
    ELSE diff_backlog(
            [d EXCEPT !.targetblocks = @ + 1,
                      !.nextTargetBlockOffset =
                          iter_blocks(d.target, d.blocksize, 0)[d.targetblocks + 1][2]
                          + Len(iter_blocks(d.target, d.blocksize, 0)[d.targetblocks + 1][1])])

\* One resumption of the generator diff_bytearrays(source, target), from
\* its start or from the yield it is suspended at to the next yield or to
\* its end.
diff_resume(d) ==
    IF d.pc = "start"
    THEN diff_yield(d, "yield header",
                    <<BLIP_MAGIC, BigOfInt(Len(d.source)), Len(d.target), <<>>>>)
    ELSE IF d.pc = "yield header" THEN diff_loop(d)
    ELSE IF d.pc = "yield op"
    THEN IF Len(d.bestOpList) > 1
         THEN diff_yield(diff_after_op(d), "yield op", d.bestOpList[2])
         ELSE diff_loop(diff_backlog([diff_after_op(d) EXCEPT
                                          !.pendingTargetReadSize = 0]))
    ELSE IF d.pc = "yield targetread"
    THEN diff_yield(d, "yield sourcecrc32", <<SOURCECRC32, crc32(d.source, BigOfInt(0))>>)
    ELSE IF d.pc = "yield sourcecrc32"
    THEN diff_yield(d, "yield targetcrc32", <<TARGETCRC32, crc32(d.target, BigOfInt(0))>>)
    ELSE [d EXCEPT !.pc = "returned"]

(***************************************************************************)
(* blip/apply.py.                                                          *)
(***************************************************************************)
RECURSIVE ByteStrings(_)
\* The byte strings over b'AB' of length at most len.
ByteStrings(len) ==
    IF len = 0 THEN {<<>>}
    ELSE ByteStrings(len - 1)
         \cup {Append(b, c) : b \in {x \in ByteStrings(len - 1) : Len(x) = len - 1},
                              c \in {65, 66}}

\* bytearray(len)
bytearray(len) == [i \in 1..len |-> 0]

apply_init(target_buf) == [pc |-> "running", writeOffset |-> 0, target_buf |-> target_buf]

RECURSIVE apply_targetcopy(_, _, _, _)
\* `for i in range(length): target_buf[writeOffset+i] = target_buf[offset+i]`;
\* the first form copies a slice of target_buf at once.
apply_targetcopy_sliced(a, offset, length, i) ==
    [a EXCEPT !.target_buf =
        PySliceAssign(@, a.writeOffset, a.writeOffset + length,
                      PySlice(@, offset, offset + length))]
apply_targetcopy(a, offset, length, i) ==
    IF i >= length THEN a
    ELSE IF item_index(a.writeOffset + i, Len(a.target_buf)) = 0
            \/ item_index(offset + i, Len(a.target_buf)) = 0
    THEN [a EXCEPT !.pc = "IndexError"]
    ELSE apply_targetcopy(
            [a EXCEPT !.target_buf[item_index(a.writeOffset + i, Len(a.target_buf))] =
                          a.target_buf[item_index(offset + i, Len(a.target_buf))]],
            offset, length, i + 1)

\* The branches of the loop body, lines 34-77.
apply_branch(a, item, source_buf, length) ==
    IF At(item, 0) = BLIP_MAGIC THEN a
    ELSE IF At(item, 0) = SOURCEREAD
    THEN [a EXCEPT !.target_buf =
              PySliceAssign(@, a.writeOffset, a.writeOffset + length,
                            PySlice(source_buf, a.writeOffset, a.writeOffset + length))]
    ELSE IF At(item, 0) = TARGETREAD
    THEN [a EXCEPT !.target_buf =
              PySliceAssign(@, a.writeOffset, a.writeOffset + length, At(item, 1))]
    ELSE IF At(item, 0) = SOURCECOPY
    THEN [a EXCEPT !.target_buf =
              PySliceAssign(@, a.writeOffset, a.writeOffset + length,
                            PySlice(source_buf, At(item, 2), At(item, 2) + length))]
    ELSE IF At(item, 0) = TARGETCOPY THEN apply_targetcopy(a, At(item, 2), length, 0)
    ELSE IF At(item, 0) = SOURCECRC32
    THEN [a EXCEPT !.pc = IF crc32(source_buf, BigOfInt(0)) # At(item, 1)
                          THEN "CorruptFile" ELSE @]
    ELSE IF At(item, 0) = TARGETCRC32
    THEN [a EXCEPT !.pc = IF crc32(a.target_buf, BigOfInt(0)) # At(item, 1)
                          THEN "CorruptFile" ELSE @]
    ELSE [a EXCEPT !.pc = "CorruptFile"]

\* The body of `for item in iterable`, with `if length: writeOffset += length`,
\* lines 79-80, at its end.
apply_item(a, item, source_buf) ==
    LET done == apply_branch(a, item, source_buf, op_size(item))
    IN  IF done.pc # "running" THEN done
        ELSE [done EXCEPT !.writeOffset = @ + op_size(item)]

\* What `for item in iterable` does when next(iterable) gives g.
apply_next(a, g, source_buf) ==
    IF a.pc # "running" THEN a
    ELSE IF g.stop THEN [a EXCEPT !.pc = "returned"]
    ELSE apply_item(a, g.item, source_buf)

\* apply_to_files from the header it takes to the call of
\* apply_to_bytearrays, lines 98-108.
apply_to_files_header(header, sourceData) ==
    IF At(header, 1) # BigOfInt(Len(sourceData))
    THEN [apply_init(<<>>) EXCEPT !.pc = "CorruptFile"]
    ELSE apply_init(bytearray(At(header, 2)))

\* apply_to_files(patch, source, target): the generators read_blip(patch)
\* and check_stream(...) it builds at line 95, the source it reads at line
\* 96, the state of apply_to_bytearrays once called, and the writes that the
\* target handle has received.
apply_to_files_init(patch, sourceData) ==
    [pc |-> "running", rb |-> read_blip_init(patch), cs |-> check_stream_init,
     ap |-> [pc |-> "idle"], sourceData |-> sourceData, written |-> <<>>]

\* What read_blip, resumed to r, gives check_stream's next(iterable).
read_blip_gives(r) ==
    IF r.pc = "returned" THEN StopIteration ELSE Gives(r.yielded[Len(r.yielded)])

\* Lines 110-113, once apply_to_bytearrays has returned.  __debug__ is false
\* under python -O, which drops the assert.
apply_to_files_end(f, debug) ==
    IF debug /\ Len(f.ap.target_buf) # f.cs.targetSize
    THEN [f EXCEPT !.pc = "AssertionError"]
    ELSE [f EXCEPT !.pc = "returned", !.written = Append(@, f.ap.target_buf)]

\* The item that check_stream yielded reaches line 98 if it is the first,
\* and the loop of apply_to_bytearrays otherwise.
apply_to_files_applied(f, a) ==
    [f EXCEPT !.ap = a, !.pc = IF a.pc = "running" THEN "running" ELSE a.pc]

\* check_stream has been resumed with what read_blip gave it: c is its
\* state and its yield.  It raises, or returns and ends the loop of
\* apply_to_bytearrays, or yields an item.
apply_to_files_checked(f, c, debug) ==
    IF c.cs.pc = "raised" THEN [f EXCEPT !.cs = c.cs, !.pc = "CorruptFile"]
    ELSE IF c.yield = <<>>
    THEN apply_to_files_end([f EXCEPT !.cs = c.cs, !.ap.pc = "returned"], debug)
    ELSE IF f.ap.pc = "idle"
    THEN apply_to_files_applied([f EXCEPT !.cs = c.cs],
                                apply_to_files_header(c.yield[1], f.sourceData))
    ELSE apply_to_files_applied([f EXCEPT !.cs = c.cs],
                                apply_item(f.ap, c.yield[1], f.sourceData))

\* read_blip has been resumed to r; what it raises leaves check_stream and
\* apply_to_files as it is.
apply_to_files_read(f, r, debug) ==
    IF r.pc \notin {"yield header", "yield hunk", "yield sourcecrc32",
                    "yield targetcrc32", "returned"}
    THEN [f EXCEPT !.rb = r, !.pc = r.pc]
    ELSE apply_to_files_checked([f EXCEPT !.rb = r],
                                check_stream_resume(f.cs, read_blip_gives(r)), debug)

\* One pull of apply_to_files on its chain of generators: next(iterable) of
\* line 98, or one pass of `for item in iterable` of apply_to_bytearrays.
apply_to_files_resume(f, debug) ==
    apply_to_files_read(f, read_blip_resume(f.rb), debug)

RECURSIVE write_blip_run(_, _)
\* write_blip(iterable, out_buf) run to its end on the items of a list.
write_blip_run(w, items) ==
    IF items = <<>> THEN write_blip_step(w, StopIteration)
    ELSE write_blip_run(write_blip_step(w, Gives(Head(items))), Tail(items))

write_blip(items) == write_blip_run(write_blip_init, items)

(***************************************************************************)
(* blip/optimize.py.  The generator optimize(iterable) holds the generator *)
(* check_stream(iterable) it reads from (its locals cs and the items of    *)
(* the iterable not taken yet), lastItem, the item of the running pass of  *)
(* the loop, and targetWriteOffset.  A BytesIO is the bytes written to it. *)
(***************************************************************************)
ELASTIC_TARGETREAD == "ElasticTargetRead"

optimize_init(iterable) ==
    [pc |-> "start", cs |-> check_stream_init, input |-> iterable,
     lastItem |-> <<>>, item |-> <<>>, targetWriteOffset |-> 0, yielded |-> <<>>]

\* What the next item of a list gives: Gives(item) or StopIteration.
next_of(items) == IF items = <<>> THEN StopIteration ELSE Gives(Head(items))

\* Lines 96-99 and 83-86: an ElasticTargetRead becomes a TargetRead again.
unelastic(lastItem) ==
    IF At(lastItem, 0) = ELASTIC_TARGETREAD THEN <<TARGETREAD, At(lastItem, 1)>>
    ELSE lastItem

\* The merged lastItem of lines 43-76, or <<>> when the two do not merge.
optimize_merge(lastItem, item) ==
    IF At(lastItem, 0) = SOURCEREAD /\ At(item, 0) = SOURCEREAD
    THEN <<SOURCEREAD, At(lastItem, 1) + At(item, 1)>>
    ELSE IF At(lastItem, 0) \in {TARGETREAD, ELASTIC_TARGETREAD} /\ At(item, 0) = TARGETREAD
    THEN <<ELASTIC_TARGETREAD, At(lastItem, 1) \o At(item, 1)>>
    ELSE IF /\ At(lastItem, 0) \in CopyOps
            /\ At(item, 0) = At(lastItem, 0)
            /\ At(lastItem, 1) + At(lastItem, 2) = At(item, 2)
    THEN <<At(lastItem, 0), At(lastItem, 1) + At(item, 1), At(lastItem, 2)>>
    ELSE <<>>

\* Lines 78-88: lastItem as it is yielded.
optimize_last(o) ==
    IF At(o.lastItem, 0) = SOURCECOPY /\ At(o.lastItem, 2) = o.targetWriteOffset
    THEN <<SOURCEREAD, At(o.lastItem, 1)>>
    ELSE unelastic(o.lastItem)

RECURSIVE optimize_loop(_)
\* `for item in iterable`, from the next() of line 41 to the next yield;
\* r is what check_stream did on that next().
optimize_item(o, r) ==
    IF r.cs.pc = "raised" THEN [o EXCEPT !.pc = "CorruptFile", !.cs = r.cs]
    ELSE IF r.yield = <<>>
    THEN \* the loop is over, lines 96-101
         [o EXCEPT !.pc = "yield last", !.cs = r.cs,
                   !.lastItem = unelastic(@),
                   !.yielded = Append(@, unelastic(o.lastItem))]
    ELSE IF optimize_merge(o.lastItem, r.yield[1]) # <<>>
    THEN optimize_loop([o EXCEPT !.cs = r.cs,
                                 !.lastItem = optimize_merge(@, r.yield[1])])
    ELSE [o EXCEPT !.pc = "yield item", !.cs = r.cs, !.item = r.yield[1],
                   !.lastItem = optimize_last(o),
                   !.yielded = Append(@, optimize_last(o))]

optimize_loop(o) ==
    optimize_item([o EXCEPT !.input = Rest(@)],
                  check_stream_resume(o.cs, next_of(o.input)))

\* Lines 30-31: r is what check_stream did on next(iterable).
optimize_header(o, r) ==
    IF r.yield = <<>> THEN [o EXCEPT !.pc = "CorruptFile", !.cs = r.cs]
    ELSE [o EXCEPT !.pc = "yield header", !.cs = r.cs,
                   !.yielded = Append(@, r.yield[1])]

\* Lines 33-40.
optimize_first(o, r) ==
    IF r.yield = <<>> THEN [o EXCEPT !.pc = "CorruptFile", !.cs = r.cs]
    ELSE optimize_loop(
            [o EXCEPT !.cs = r.cs,
                      !.lastItem =
                          IF At(r.yield[1], 0) = SOURCECOPY /\ At(r.yield[1], 2) = 0
                          THEN <<SOURCEREAD, At(r.yield[1], 1)>>
                          ELSE r.yield[1]])

\* One resumption of the generator optimize(iterable), from its start or
\* from the yield it is suspended at to the next yield, return or raise.
\* After the yield of line 88 it resumes at lines 90-94.
optimize_resume(o) ==
    IF o.pc = "start"
    THEN optimize_header([o EXCEPT !.input = Rest(@)],
                         check_stream_resume(o.cs, next_of(o.input)))
    ELSE IF o.pc = "yield header"
    THEN optimize_first([o EXCEPT !.input = Rest(@)],
                        check_stream_resume(o.cs, next_of(o.input)))
    ELSE IF o.pc = "yield item"
    THEN optimize_loop([o EXCEPT !.targetWriteOffset =
                                     IF At(o.lastItem, 0) \in HunkOps
                                     THEN @ + op_size(o.lastItem) ELSE @,
                                 !.lastItem = o.item])
    ELSE [o EXCEPT !.pc = "returned"]

(***************************************************************************)
(* State.                                                                  *)
(***************************************************************************)
VARIABLES
    n,      \* the integer given to encode_var_int
    enc,    \* the locals of the running encode_var_int
    rd,     \* the locals of the running read_var_int
    cs,     \* the locals and position of the check_stream generator
    got,    \* what the last next(iterable) of check_stream gave
    taken,  \* how many items check_stream has taken from its iterable
    out,    \* the item check_stream yielded last
    yields, \* how many items check_stream has yielded
    written, \* the bytes the items yielded so far write (sum of op_size)
    stream, \* the items check_stream has yielded, as a list
    wb,     \* the locals of the running write_blip and its out_buf
    rb,     \* the locals and position of the read_blip generator, and in_buf
    df,     \* the locals and position of the diff_bytearrays generator
    ap,     \* the locals of the running apply_to_bytearrays and its target_buf
    sb,     \* the source data a patch is applied to
    opt,    \* the locals and position of the optimize generator
    apo,    \* apply_to_bytearrays run on what optimize yields
    fl,     \* the locals of the running apply_to_files and its target file
    ob,     \* operation objects of bps/operations.py, as <<a, b>>
    obuf,   \* an OpBuffer of bps/operations.py and the last call on it
    cw,     \* a CRCIOWrapper, its underlying stream and the calls made on it
    asm     \* a header's metadata on its way through the assembler format

varIntVars == <<n, enc, rd>>
validateVars == <<cs, got, taken, out, yields, written>>
ioVars == <<stream, wb, rb>>
diffVars == <<df, ap, sb, opt, apo, fl, ob>>
toolVars == <<obuf, cw, asm>>
vars ==
    <<n, enc, rd, cs, got, taken, out, yields, written, stream, wb, rb, df, ap,
      sb, opt, apo, fl, ob, obuf, cw, asm>>

Idle == [pc |-> "idle"]

VarIntIdle == n = BigOfInt(0) /\ enc = Idle /\ rd = Idle
ValidateIdle ==
    cs = Idle /\ got = Idle /\ taken = 0 /\ out = <<>> /\ yields = 0 /\ written = 0
IOIdle == stream = <<>> /\ wb = Idle /\ rb = Idle
ToolIdle == obuf = Idle /\ cw = Idle /\ asm = Idle
PatchIdle ==
    sb = <<>> /\ opt = Idle /\ apo = Idle /\ fl = Idle /\ ob = Idle /\ ToolIdle
DiffIdle == df = Idle /\ ap = Idle /\ PatchIdle

(***************************************************************************)
(* Round trip of one integer through encode_var_int and read_var_int.      *)
(***************************************************************************)
\* A magnitude of len digits: lo repeated, then the most significant digit hi.
Pattern(len, lo, hi) == [i \in 1..len |-> IF i = len THEN hi ELSE lo]

InitVarInt ==
    /\ n \in {BigOfInt(i) : i \in 0..MaxSmallInt}
             \cup {BigMk(FALSE, Pattern(len, lo, hi)) :
                     len \in 1..MaxDigits, lo \in {0, 1, 127}, hi \in {1, 127}}
    /\ enc = encode_var_int_init(n)
    /\ rd = Idle
    /\ ValidateIdle
    /\ IOIdle
    /\ DiffIdle

EncodePass ==
    /\ enc.pc = "loop"
    /\ enc.passes < MaxVarIntLoops
    /\ enc' = encode_var_int_pass(enc)
    /\ UNCHANGED <<n, rd, validateVars, ioVars, diffVars, toolVars>>

ReadBegin ==
    /\ enc.pc = "return"
    /\ rd.pc = "idle"
    /\ rd' = read_var_int_init(enc.buf, 0)
    /\ UNCHANGED <<n, enc, validateVars, ioVars, diffVars, toolVars>>

ReadPass ==
    /\ rd.pc = "loop"
    /\ rd' = read_var_int_pass(rd)
    /\ UNCHANGED <<n, enc, validateVars, ioVars, diffVars, toolVars>>

NextVarInt == EncodePass \/ ReadBegin \/ ReadPass

SpecVarInt == InitVarInt /\ [][NextVarInt]_vars

\* C9: for every n >= 0, read_var_int of the bytes of encode_var_int(n)
\* returns n and consumes exactly those bytes.
C9_RoundTrip ==
    rd.pc \in {"return", "IndexError"} =>
        /\ rd.pc = "return"
        /\ rd.res = n
        /\ rd.pos = Len(rd.data)

(***************************************************************************)
(* check_stream driven by a consumer, over an arbitrary iterable: every    *)
(* next(iterable) gives any item of the set below, or StopIteration.       *)
(***************************************************************************)
Iterable ==
    {Gives(i) : i \in
        \* headers
        {<<BLIP_MAGIC, BigOfInt(s), t, <<>>>> :
            s \in (0 - 1)..MaxSourceSize, t \in (0 - 1)..MaxTargetSize}
        \cup {<<"sasquatch", BigOfInt(0), 0, <<>>>>, <<BLIP_MAGIC, BigOfInt(0), <<>>>>}
        \* hunks
        \cup {<<SOURCEREAD, k>> : k \in 0..MaxSpan}
        \cup {<<TARGETREAD, p>> : p \in UNION {[1..k -> {65}] : k \in 0..MaxSpan}}
        \cup {<<op, k, o>> : op \in CopyOps, k \in 0..MaxSpan,
                             o \in (0 - MaxOffset)..MaxOffset}
        \cup {<<SOURCEREAD>>, <<SOURCECOPY, 1>>, <<TARGETCOPY, 1>>, <<"bogus", 1>>}
        \* CRCs
        \cup {<<op, v>> : op \in {SOURCECRC32, TARGETCRC32},
                          v \in {BigOfInt(0), BigOfInt(1), BigOfInt(0 - 1),
                                 BigMk(FALSE, Mag2Pow32),
                                 BigMk(FALSE, MagSubB(Mag2Pow32, <<1>>, 0))}}
        \cup {<<SOURCECRC32>>, <<TARGETCRC32, BigOfInt(0), BigOfInt(0)>>}}
    \cup {StopIteration}

InitValidate ==
    /\ cs = check_stream_init
    /\ got = Idle
    /\ taken = 0
    /\ out = <<>>
    /\ yields = 0
    /\ written = 0
    /\ VarIntIdle
    /\ IOIdle
    /\ DiffIdle

\* The consumer's next() on the generator, when the iterable gives g.
Resumed_ahead(g) ==
    LET r == check_stream_resume(cs, g)
    IN  /\ cs' = r.cs
        /\ got' = g
        /\ taken' = IF g.stop THEN taken ELSE taken + 2
        /\ out' = IF r.yield # <<>> THEN r.yield[1] ELSE out
        /\ yields' = yields + Len(r.yield)
        /\ written' = IF r.yield # <<>> THEN written + op_size(r.yield[1]) ELSE written
Resumed(g) ==
    LET r == check_stream_resume(cs, g)
    IN  /\ cs' = r.cs
        /\ got' = g
        /\ taken' = IF g.stop THEN taken ELSE taken + 1
        /\ out' = IF r.yield # <<>> THEN r.yield[1] ELSE out
        /\ yields' = yields + Len(r.yield)
        /\ written' = IF r.yield # <<>> THEN written + op_size(r.yield[1]) ELSE written

Resume(g) == Resumed(g) /\ UNCHANGED <<varIntVars, diffVars, toolVars>>

InHunkLoop == cs.pc \in {"yield header", "yield item"}

CheckHeader ==
    /\ cs.pc = "start"
    /\ \E g \in Iterable : Resume(g)
    /\ UNCHANGED ioVars

CheckHunk ==
    /\ InHunkLoop
    /\ cs.targetWriteOffset < cs.targetSize
    /\ \E g \in Iterable : Resume(g)
    /\ UNCHANGED ioVars

CheckSourceCRC32 ==
    /\ InHunkLoop
    /\ cs.targetWriteOffset >= cs.targetSize
    /\ \E g \in Iterable : Resume(g)
    /\ UNCHANGED ioVars

CheckTargetCRC32 ==
    /\ cs.pc = "yield sourcecrc32"
    /\ \E g \in Iterable : Resume(g)
    /\ UNCHANGED ioVars

CheckEnd ==
    /\ cs.pc = "yield targetcrc32"
    /\ \E g \in Iterable : Resume(g)
    /\ UNCHANGED ioVars

NextValidate ==
    CheckHeader \/ CheckHunk \/ CheckSourceCRC32 \/ CheckTargetCRC32 \/ CheckEnd

SpecValidate == InitValidate /\ [][NextValidate]_vars

(***************************************************************************)
(* Properties of check_stream.                                             *)
(***************************************************************************)
YieldStates ==
    {"yield header", "yield item", "yield sourcecrc32", "yield targetcrc32"}
\* The opcode of the item yielded last.
LastOp == IF yields = 0 THEN "nothing" ELSE At(out, 0)

\* A hunk as the data model defines it: a known opcode with its parameters
\* and a positive length (a nonempty payload).
IsHunk(item) ==
    /\ Len(item) >= 1
    /\ At(item, 0) \in HunkOps
    /\ Len(item) - 1 = (IF At(item, 0) \in CopyOps THEN 2 ELSE 1)
    /\ op_size(item) > 0

\* C2: the items check_stream yields are a prefix of its input, in order
\* and unmodified: its k-th yield is the k-th item it took.  An item that
\* fails a check is taken and not yielded, and the generator returns only
\* when the input is exhausted and every item of it has been yielded.
C2_YieldsPrefixOfInput ==
    [][ /\ cs'.pc \in YieldStates \cup {"raised", "returned"}
        /\ IF cs'.pc \in YieldStates
           THEN /\ ~got'.stop
                /\ yields' = yields + 1
                /\ yields' = taken'
                /\ out' = got'.item
           ELSE yields' = yields /\ out' = out
        /\ (cs'.pc = "raised" /\ ~got'.stop) => yields' = taken' - 1
        /\ cs'.pc = "returned" => (got'.stop /\ yields' = taken')
      ]_vars

C2_Witness ==
    cs.pc = "returned" /\ yields = 5 /\ taken = 5 /\ written = 2

\* The state part of C3: at every yield writeOffset is the sum of the
\* bytespans yielded so far and is at most targetSize; a stream accepted
\* to the end has bytespans summing to exactly targetSize.
C3_Offsets ==
    /\ cs.pc \in YieldStates =>
          (cs.targetWriteOffset = written /\ written <= cs.targetSize)
    /\ cs.pc \in {"yield sourcecrc32", "yield targetcrc32", "returned"} =>
          written = cs.targetSize

\* A hunk that would take writeOffset past targetSize is given.
C3_Overshoots ==
    /\ cs.pc \in YieldStates
    /\ ~got'.stop
    /\ IsHunk(got'.item)
    /\ written + op_size(got'.item) > cs.targetSize

\* C3 as claimed: writeOffset <= targetSize at every yield, a hunk with
\* writeOffset + bytespan > targetSize is rejected with 'writes past the end
\* of the target' and not yielded, and an accepted stream's bytespans sum to
\* targetSize.
C3_AsClaimed ==
    [][ /\ C3_Offsets'
        /\ C3_Overshoots =>
              /\ cs'.pc = "raised"
              /\ cs'.error = "writes past the end of the target"
              /\ yields' = yields
      ]_vars

\* C3 amended: such a hunk is rejected and not yielded; the message is
\* 'writes past the end of the target' when the hunk arrives while
\* writeOffset < targetSize and passes the checks of its own kind, and the
\* message of the check that fails first otherwise.
C3_Amended ==
    [][ /\ C3_Offsets'
        /\ C3_Overshoots =>
              /\ cs'.pc = "raised"
              /\ yields' = yields
              /\ (written < cs.targetSize /\ check_hunk(cs, got'.item) = NoError)
                    <=> cs'.error = "writes past the end of the target"
      ]_vars

C3_Witness ==
    /\ cs.pc = "raised"
    /\ cs.error = "writes past the end of the target"
    /\ yields = 2
    /\ IsHunk(got.item)
    /\ 0 < written /\ written < cs.targetSize
    /\ written + op_size(got.item) > cs.targetSize

\* C4: check_stream yields only in the order Header, hunks, SourceCRC32,
\* TargetCRC32: a hunk only while writeOffset < targetSize, SourceCRC32 only
\* as the first item once writeOffset has reached targetSize, TargetCRC32
\* only right after SourceCRC32, nothing after TargetCRC32; an item out of
\* this order raises CorruptFile.
C4_Order ==
    [][ /\ yields' = yields + 1 =>
              \/ yields = 0 /\ At(out', 0) = BLIP_MAGIC
              \/ /\ At(out', 0) \in HunkOps
                 /\ LastOp \in HunkOps \cup {BLIP_MAGIC}
                 /\ written < cs.targetSize
              \/ /\ At(out', 0) = SOURCECRC32
                 /\ LastOp \in HunkOps \cup {BLIP_MAGIC}
                 /\ written = cs.targetSize
              \/ At(out', 0) = TARGETCRC32 /\ LastOp = SOURCECRC32
        /\ yields' = yields => cs'.pc \in {"raised", "returned"}
        /\ cs'.pc = "returned" => (LastOp = TARGETCRC32 /\ got'.stop)
        /\ (/\ LastOp \in HunkOps \cup {BLIP_MAGIC}
            /\ written < cs.targetSize
            /\ ~got'.stop
            /\ Len(got'.item) >= 1
            /\ At(got'.item, 0) \in {SOURCECRC32, TARGETCRC32})
              => cs'.pc = "raised"
        /\ (LastOp = TARGETCRC32 /\ ~got'.stop)
              => (cs'.pc = "raised" /\ cs'.error = "trailing garbage in stream")
      ]_vars

C4_Witness ==
    /\ cs.pc = "raised"
    /\ cs.error = "trailing garbage in stream"
    /\ LastOp = TARGETCRC32
    /\ yields = 4
    /\ taken = 5

\* A hunk of this opcode, with its parameters and a positive length, is
\* given inside the hunk loop.
HunkGiven(opcode) ==
    /\ InHunkLoop
    /\ written < cs.targetSize
    /\ ~got'.stop
    /\ IsHunk(got'.item)
    /\ At(got'.item, 0) = opcode

\* C5: a SourceCopy(length, offset) is accepted exactly when 0 <= offset,
\* offset + length <= sourceSize and writeOffset + length <= targetSize,
\* whatever SourceCopy ops came before it.
C5_AbsoluteSourceCopy ==
    [][ HunkGiven(SOURCECOPY) =>
          LET length == At(got'.item, 1)
              offset == At(got'.item, 2)
          IN  cs'.pc = "yield item"
                <=> /\ 0 <= offset
                    /\ ~BigLess(cs.sourceSize, BigOfInt(offset + length))
                    /\ written + length <= cs.targetSize
      ]_vars

\* C6: a TargetCopy(length, offset) is accepted exactly when
\* 0 <= offset < writeOffset and writeOffset + length <= targetSize;
\* offset + length may exceed writeOffset, and at writeOffset = 0 every
\* TargetCopy is rejected.
C6_AbsoluteTargetCopy ==
    [][ HunkGiven(TARGETCOPY) =>
          LET length == At(got'.item, 1)
              offset == At(got'.item, 2)
          IN  cs'.pc = "yield item"
                <=> /\ 0 <= offset
                    /\ offset < written
                    /\ written + length <= cs.targetSize
      ]_vars

\* C7: a SourceRead(length) is rejected with 'reads past the end of the
\* source file' exactly when writeOffset + length > sourceSize; one that ends
\* exactly at sourceSize (and within the target) is accepted.
C7_SourceReadBound ==
    [][ HunkGiven(SOURCEREAD) =>
          LET length == At(got'.item, 1)
              pastSource == BigLess(cs.sourceSize, BigOfInt(written + length))
          IN  /\ pastSource <=>
                    /\ cs'.pc = "raised"
                    /\ cs'.error = "reads past the end of the source file"
              /\ (cs.sourceSize = BigOfInt(written + length)
                    /\ written + length <= cs.targetSize)
                  => (cs'.pc = "yield item" /\ out' = got'.item)
      ]_vars

C7_Witness ==
    /\ cs.pc = "yield item"
    /\ At(out, 0) = SOURCEREAD
    /\ yields = 3
    /\ cs.sourceSize = BigOfInt(written)
    /\ written < cs.targetSize

\* C8: when the input ends before the header, before writeOffset has
\* reached targetSize, before SourceCRC32 or before TargetCRC32, check_stream
\* raises CorruptFile ('truncated patch'): it does not return and the
\* StopIteration of its iterable does not escape.
C8_Truncated ==
    [][ /\ (got'.stop /\ LastOp # TARGETCRC32)
              => (cs'.pc = "raised" /\ cs'.error = "truncated patch")
        /\ cs'.pc # "StopIteration"
        /\ cs'.pc = "returned" => LastOp = TARGETCRC32
      ]_vars

C8_Witness ==
    /\ cs.pc = "raised"
    /\ cs.error = "truncated patch"
    /\ got.stop
    /\ LastOp = SOURCECRC32
    /\ written > 0

(***************************************************************************)
(* A stream check_stream accepts, written by write_blip and read back by   *)
(* read_blip.  The stream is built item by item: only items check_stream   *)
(* yields, ending with its return, go on.                                  *)
(***************************************************************************)
\* The source sizes include 127 * 128**20, whose encoding needs 21 bytes;
\* the metadata are "" and "mé".
IOIterable ==
    {Gives(i) : i \in
        {<<BLIP_MAGIC, s, t, md>> :
            s \in {BigOfInt(0), BigOfInt(128), BigMk(FALSE, Pattern(21, 0, 127))},
            t \in {0, 2, 35}, md \in {<<>>, <<109, 233>>}}
        \cup {<<SOURCEREAD, k>> : k \in {1, 33}}
        \cup {<<TARGETREAD, p>> : p \in {<<65>>, <<65, 200>>}}
        \cup {<<op, k, o>> : op \in CopyOps, k \in {1, 33}, o \in {0 - 1, 0, 64}}
        \cup {<<op, v>> : op \in {SOURCECRC32, TARGETCRC32},
                          v \in {BigOfInt(0), BigMk(FALSE, MagSubB(Mag2Pow32, <<1>>, 0))}}}
    \cup {StopIteration}

InitIO ==
    /\ cs = check_stream_init
    /\ got = Idle
    /\ taken = 0
    /\ out = <<>>
    /\ yields = 0
    /\ written = 0
    /\ stream = <<>>
    /\ wb = write_blip_init
    /\ rb = Idle
    /\ VarIntIdle
    /\ DiffIdle

\* check_stream takes the next item of the stream and accepts it.
IOCheck ==
    /\ cs.pc \in {"start"} \cup YieldStates
    /\ \E g \in IOIterable :
        /\ check_stream_resume(cs, g).cs.pc \in YieldStates \cup {"returned"}
        /\ IF g.stop THEN TRUE
           ELSE IF At(g.item, 0) \in HunkOps THEN Len(stream) <= MaxIOHunks
           ELSE TRUE
        /\ Resume(g)
        /\ stream' = stream \o check_stream_resume(cs, g).yield
    /\ UNCHANGED <<wb, rb>>

\* What iter(stream) gives write_blip next.
NextOfStream ==
    IF wb.taken < Len(stream) THEN Gives(stream[wb.taken + 1]) ELSE StopIteration

WriteHeader ==
    /\ cs.pc = "returned"
    /\ wb.pc = "start"
    /\ wb' = write_blip_step(wb, NextOfStream)
    /\ UNCHANGED <<varIntVars, validateVars, diffVars, stream, rb, toolVars>>

WriteItem ==
    /\ wb.pc = "running"
    /\ ~NextOfStream.stop
    /\ wb' = write_blip_step(wb, NextOfStream)
    /\ UNCHANGED <<varIntVars, validateVars, diffVars, stream, rb, toolVars>>

WriteEnd ==
    /\ wb.pc = "running"
    /\ NextOfStream.stop
    /\ wb' = write_blip_step(wb, NextOfStream)
    /\ UNCHANGED <<varIntVars, validateVars, diffVars, stream, rb, toolVars>>

ReadOpen ==
    /\ wb.pc = "returned"
    /\ rb.pc = "idle"
    /\ rb' = read_blip_init(wb.out_buf)
    /\ UNCHANGED <<varIntVars, validateVars, diffVars, stream, wb, toolVars>>

ReadResume ==
    /\ rb.pc \in {"start", "yield header", "yield hunk", "yield sourcecrc32",
                  "yield targetcrc32"}
    /\ rb' = read_blip_resume(rb)
    /\ UNCHANGED <<varIntVars, validateVars, diffVars, stream, wb, toolVars>>

NextIO == IOCheck \/ WriteHeader \/ WriteItem \/ WriteEnd \/ ReadOpen \/ ReadResume

SpecIO == InitIO /\ [][NextIO]_vars

\* C10: for every stream check_stream accepts, write_blip returns and
\* read_blip of the bytes it wrote yields exactly the stream's items.
C10_RoundTrip ==
    /\ wb.pc \notin {"idle", "start", "running"} => wb.pc = "returned"
    /\ rb.pc \in {"returned", "CorruptFile", "IndexError", "struct.error"}
          => rb.pc = "returned" /\ rb.yielded = stream

RECURSIVE copy_cursor(_, _)
\* The running cursor of the copies of this opcode after the ops: 0, or
\* offset + length of the last of them (lastSourceCopyOffset and
\* lastTargetCopyOffset of bps/diff.py).
copy_cursor(ops, opcode) ==
    IF ops = <<>> THEN 0
    ELSE IF At(ops[Len(ops)], 0) = opcode
    THEN At(ops[Len(ops)], 2) + At(ops[Len(ops)], 1)
    ELSE copy_cursor(SubSeq(ops, 1, Len(ops) - 1), opcode)

\* C11: copy offsets are absolute in the ops.  For each SourceCopy
\* (TargetCopy) write_blip writes the signed difference between the op's
\* offset and the cursor of its kind, which is 0 at first and offset + length
\* after each copy of that kind; read_blip yields the wire value added to the
\* same cursor, never the wire value itself.
C11_AbsoluteOffsets ==
    [][ /\ (/\ wb.pc = "running"
            /\ wb'.pc = "running"
            /\ wb'.taken = wb.taken + 1
            /\ At(stream[wb'.taken], 0) \in CopyOps)
              => wb'.out_buf =
                    wb.out_buf
                    \o encode_var_int(BigOfInt(hunk_value(
                           At(stream[wb'.taken], 1),
                           IF At(stream[wb'.taken], 0) = SOURCECOPY
                           THEN OP_SOURCECOPY ELSE OP_TARGETCOPY))).buf
                    \o encode_var_int(BigOfInt(copy_offset_value(
                           At(stream[wb'.taken], 2)
                           - copy_cursor(SubSeq(stream, 1, wb.taken),
                                         At(stream[wb'.taken], 0))))).buf
        /\ (/\ rb.pc \in {"yield header", "yield hunk"}
            /\ rb'.pc = "yield hunk"
            /\ At(rb'.yielded[Len(rb'.yielded)], 0) \in CopyOps)
              => At(rb'.yielded[Len(rb'.yielded)], 2) =
                    copy_cursor(rb.yielded, At(rb'.yielded[Len(rb'.yielded)], 0))
                    + (IF IntOfBig(rb'.value) % 2 = 1
                       THEN 0 - (IntOfBig(rb'.value) \div 2)
                       ELSE IntOfBig(rb'.value) \div 2)
      ]_vars

(***************************************************************************)
(* The same, with patches that were damaged after write_blip wrote them:   *)
(* read_blip is given a patch of at most MaxDamagedLen bytes as written or *)
(* with one byte of its footer changed: the first byte of the footer, or   *)
(* the first or the last byte of the patch's own CRC.                      *)
(***************************************************************************)
\* The bytes of the footer: SourceCRC32, TargetCRC32 and the patch's CRC.
FooterSize == 4 + 4 + 4

ReadDamaged ==
    /\ wb.pc = "returned"
    /\ rb.pc = "idle"
    /\ Len(wb.out_buf) <= MaxDamagedLen
    /\ \/ rb' = read_blip_init(wb.out_buf)
       \/ \E i \in {Len(wb.out_buf) - FooterSize + 1, Len(wb.out_buf) - 3,
                   Len(wb.out_buf)} :
             rb' = read_blip_init([wb.out_buf EXCEPT ![i] = (@ + 1) % 256])
    /\ UNCHANGED <<varIntVars, validateVars, diffVars, stream, wb, toolVars>>

NextDamaged == IOCheck \/ WriteHeader \/ WriteItem \/ WriteEnd \/ ReadDamaged \/ ReadResume

SpecDamaged == InitIO /\ [][NextDamaged]_vars

\* C12: the last four bytes write_blip writes are the CRC-32 of all bytes it
\* wrote before them; and when read_blip comes to the patch's last four
\* bytes, it raises CorruptFile if they differ from the CRC-32 of all bytes
\* it read before them and returns if they are equal.
C12_PatchCRC ==
    [][ /\ wb'.pc = "returned" =>
              SubSeq(wb'.out_buf, Len(wb'.out_buf) - 3, Len(wb'.out_buf))
                  = pack_I(crc32(SubSeq(wb'.out_buf, 1, Len(wb'.out_buf) - 4),
                                 BigOfInt(0)))
        /\ (rb.pc = "yield targetcrc32" /\ rb.pos + 4 <= Len(rb.data)) =>
              /\ rb'.pos = rb.pos + 4
              /\ rb'.pc = (IF SubSeq(rb.data, rb.pos + 1, rb.pos + 4)
                                = pack_I(crc32(SubSeq(rb.data, 1, rb.pos), BigOfInt(0)))
                           THEN "returned" ELSE "CorruptFile")
      ]_vars

\* read_blip has read a damaged patch to its end and raised on its CRC.
C12_Witness ==
    /\ rb.pc = "CorruptFile"
    /\ rb.pos = Len(rb.data)
    /\ Len(rb.yielded) >= 4
    /\ rb.data # wb.out_buf
    /\ wb.pc = "returned"

(***************************************************************************)
(* apply_to_bytearrays run on the ops of diff_bytearrays(source, target),  *)
(* with the same source and a target buffer of len(target) zero bytes.     *)
(* An operation object of bps/operations.py is the tuple of its fields     *)
(* behind its opcode, the layout apply_to_bytearrays indexes.              *)
(***************************************************************************)
InitDiff ==
    /\ \E source \in ByteStrings(MaxDiffSource), target \in ByteStrings(MaxDiffTarget) :
        /\ df = diff_init(source, target)
        /\ ap = apply_init(bytearray(Len(target)))
    /\ PatchIdle
    /\ VarIntIdle
    /\ ValidateIdle
    /\ IOIdle

\* next(iterable) in the `for` of apply_to_bytearrays resumes the generator,
\* which is then as d says.
ApplyResumed(d) ==
    /\ ap.pc = "running"
    /\ df.pc \notin {"idle", "returned", "StopIteration"}
    /\ df' = d
    /\ UNCHANGED <<varIntVars, validateVars, ioVars, sb, opt, apo, fl, ob, toolVars>>

\* One pass of `for item in iterable`: the generator yields an item, and the
\* loop body runs on it.
ApplyNext ==
    /\ ApplyResumed(diff_resume(df))
    /\ df'.pc \notin {"returned", "StopIteration"}
    /\ ap' = apply_item(ap, df'.yielded[Len(df'.yielded)], df.source)

\* The generator ends, and so does the loop of apply_to_bytearrays.
ApplyReturn ==
    /\ ApplyResumed(diff_resume(df))
    /\ df'.pc \in {"returned", "StopIteration"}
    /\ ap' = [ap EXCEPT !.pc = df'.pc]

NextDiff == ApplyNext \/ ApplyReturn

SpecDiff == InitDiff /\ [][NextDiff]_vars

\* C1: for every source S and target T, apply_to_bytearrays on the ops of
\* diff_bytearrays(S, T), with source S and a target buffer of len(T)
\* bytes, returns and leaves the target buffer equal to T.
C1_RoundTrip ==
    ap.pc \notin {"idle", "running"} => ap.pc = "returned" /\ ap.target_buf = df.target

(***************************************************************************)
(* A patch that check_stream accepts, applied item by item as              *)
(* apply_to_files applies it, then given to optimize, whose output goes    *)
(* to check_stream and to apply_to_bytearrays again.  The CRC values of    *)
(* the patch are 0 or the CRC-32 of the data they stand for.               *)
(***************************************************************************)
PatchIterable ==
    {Gives(i) : i \in
        {<<BLIP_MAGIC, BigOfInt(Len(sb)), t, <<>>>> : t \in 0..MaxPatchTarget}
        \cup {<<BLIP_MAGIC, BigOfInt(2 * LargeSpan + 1), LargeSpan + 1, <<>>>>}
        \cup {<<SOURCEREAD, k>> : k \in {1, 2, LargeSpan - 1}}
        \cup {<<TARGETREAD, p>> : p \in {<<65>>, <<66, 65>>}}
        \cup {<<op, k, o>> : op \in CopyOps, k \in {1, 2, LargeSpan - 1},
                             o \in {0 - 1, 0, 1, LargeSpan}}
        \cup {<<SOURCECRC32, v>> : v \in {BigOfInt(0), crc32(sb, BigOfInt(0))}}
        \cup {<<TARGETCRC32, v>> :
                v \in {BigOfInt(0)}
                      \cup (IF ap.pc = "running"
                            THEN {crc32(ap.target_buf, BigOfInt(0))} ELSE {})}}
    \cup {StopIteration}

InitPatch ==
    /\ sb \in ByteStrings(MaxPatchSource)
    /\ cs = check_stream_init
    /\ got = Idle
    /\ taken = 0
    /\ out = <<>>
    /\ yields = 0
    /\ written = 0
    /\ stream = <<>>
    /\ wb = Idle
    /\ rb = Idle
    /\ df = Idle
    /\ ap = Idle
    /\ opt = Idle
    /\ apo = Idle
    /\ fl = Idle
    /\ ob = Idle
    /\ ToolIdle
    /\ VarIntIdle

\* check_stream takes g from the patch and accepts it.
PatchTake(g) ==
    /\ opt = Idle
    /\ check_stream_resume(cs, g).cs.pc \in YieldStates \cup {"returned"}
    /\ Resumed(g)
    /\ stream' = stream \o check_stream_resume(cs, g).yield
    /\ UNCHANGED <<varIntVars, wb, rb, df, sb, opt, apo, fl, ob, toolVars>>

\* apply_to_files takes the header, lines 98-106.
PatchHeader ==
    /\ cs.pc = "start"
    /\ \E g \in PatchIterable :
        /\ PatchTake(g)
        /\ ap' = apply_to_files_header(g.item, sb)

\* One pass of the loop of apply_to_bytearrays, or its end.
PatchItem ==
    /\ cs.pc \in YieldStates
    /\ \E g \in PatchIterable :
        /\ IF g.stop THEN TRUE
           ELSE IF At(g.item, 0) \in HunkOps THEN Len(stream) <= MaxPatchHunks
           ELSE TRUE
        /\ PatchTake(g)
        /\ ap' = apply_next(ap, g, sb)

\* check_stream(optimize(check_stream(patch))) is created.
OptimizeOpen ==
    /\ cs.pc = "returned"
    /\ opt = Idle
    /\ opt' = optimize_init(stream)
    /\ cs' = check_stream_init
    /\ got' = Idle
    /\ taken' = 0
    /\ out' = <<>>
    /\ yields' = 0
    /\ written' = 0
    /\ UNCHANGED <<varIntVars, ioVars, df, ap, sb, apo, fl, ob, toolVars>>

\* What optimize gives its consumer when it is resumed and is then as o says.
optimize_gives(o) ==
    IF o.pc \in {"yield header", "yield item", "yield last"}
    THEN Gives(o.yielded[Len(o.yielded)])
    ELSE StopIteration

\* optimize is resumed and is then as o says; what it yields goes to
\* check_stream and to apply_to_bytearrays.
OptimizeResumed(o) ==
    /\ opt' = o
    /\ IF o.pc = "CorruptFile" \/ cs.pc = "raised"
       THEN UNCHANGED validateVars
       ELSE Resumed(optimize_gives(o))
    /\ apo' = IF o.pc = "CorruptFile" THEN apo
              ELSE IF o.pc = "yield header"
              THEN apply_to_files_header(optimize_gives(o).item, sb)
              ELSE apply_next(apo, optimize_gives(o), sb)
    /\ UNCHANGED <<varIntVars, ioVars, df, ap, sb, fl, ob, toolVars>>

OptimizeNext ==
    /\ opt.pc \in {"start", "yield header", "yield item", "yield last"}
    /\ OptimizeResumed(optimize_resume(opt))

\* Patches that are validated and applied, and no more, on the sources of
\* at most MaxApplySource bytes.
InitApply == InitPatch /\ Len(sb) <= MaxApplySource

NextApply == PatchHeader \/ PatchItem

SpecApply == InitApply /\ [][NextApply]_vars

NextPatch == PatchHeader \/ PatchItem \/ OptimizeOpen \/ OptimizeNext

SpecPatch == InitPatch /\ [][NextPatch]_vars

\* C13: when apply_to_bytearrays finishes without error on a stream that
\* check_stream accepted, with a source of sourceSize bytes and a target
\* buffer of targetSize bytes, writeOffset is targetSize, the target buffer
\* has targetSize bytes and its CRC-32 is the value of the TargetCRC32 op.
C13_ApplyPostcondition ==
    (opt = Idle /\ cs.pc = "returned" /\ ap.pc = "returned") =>
        /\ ap.writeOffset = cs.targetSize
        /\ Len(ap.target_buf) = cs.targetSize
        /\ crc32(ap.target_buf, BigOfInt(0)) = At(stream[Len(stream)], 1)

C16_OptimizeSameTarget ==
    (opt.pc = "returned" /\ ap.pc = "returned") =>
        (apo.pc = "returned" /\ apo.target_buf = ap.target_buf)

\* C17: for every stream that check_stream accepts, check_stream accepts
\* the stream that optimize yields, which has the same header.
C17_OptimizeValid ==
    /\ opt.pc \notin {"idle", "start"} => (cs.pc # "raised" /\ opt.pc # "CorruptFile")
    /\ opt.pc = "returned" => (cs.pc = "returned" /\ opt.yielded[1] = stream[1])

\* len(Header.encode()), bps/operations.py lines 97-106, with blip's magic.
header_encoding_size(header) ==
    Len(BLIP_MAGIC_BYTES)
    + Len(encode_var_int(At(header, 1)).buf)
    + var_int_size(At(header, 2))
    + var_int_size(Len(utf8_encode(At(header, 3))))
    + Len(utf8_encode(At(header, 3)))

\* len(pack("<I", value)), _BaseCRC32.encode.
crc_encoding_size(value) == Len(pack_I(value))

RECURSIVE patch_encoding_size(_, _, _)
\* The bytes that the operations of a patch encode to, one after the other,
\* each copy against the offset that the last copy of its kind ended at
\* (OpBuffer.append keeps these as offset + bytespan).
patch_encoding_size(ops, lastSourceCopyOffset, lastTargetCopyOffset) ==
    IF ops = <<>> THEN 0
    ELSE IF At(Head(ops), 0) = BLIP_MAGIC
    THEN header_encoding_size(Head(ops))
         + patch_encoding_size(Tail(ops), lastSourceCopyOffset, lastTargetCopyOffset)
    ELSE IF At(Head(ops), 0) \in {SOURCECRC32, TARGETCRC32}
    THEN crc_encoding_size(At(Head(ops), 1))
         + patch_encoding_size(Tail(ops), lastSourceCopyOffset, lastTargetCopyOffset)
    ELSE encoding_size(Head(ops), lastSourceCopyOffset, lastTargetCopyOffset)
         + patch_encoding_size(
              Tail(ops),
              IF At(Head(ops), 0) = SOURCECOPY
              THEN At(Head(ops), 2) + At(Head(ops), 1) ELSE lastSourceCopyOffset,
              IF At(Head(ops), 0) = TARGETCOPY
              THEN At(Head(ops), 2) + At(Head(ops), 1) ELSE lastTargetCopyOffset)

\* C18: for every stream P that check_stream accepts, the operations that
\* optimize yields encode to no more bytes than the operations of P, copy
\* offsets being encoded relative to the end of the last copy of the kind.
C18_OptimizeNoLonger ==
    opt.pc = "returned" =>
        patch_encoding_size(opt.yielded, 0, 0) <= patch_encoding_size(stream, 0, 0)

(***************************************************************************)
(* apply_to_files on patch files.  A stream that check_stream has accepted *)
(* is written by write_blip; apply_to_files is called on the bytes, or on  *)
(* the bytes with the last byte of the patch's own CRC changed, with the   *)
(* source the stream was made for or with a source one byte longer.        *)
(***************************************************************************)
PatchFiles(data) == {data, [data EXCEPT ![Len(data)] = (@ + 1) % 256]}

SourceFiles == {sb, sb \o <<0>>}

FileOpen ==
    /\ cs.pc = "returned"
    /\ fl = Idle
    /\ Len(stream) <= MaxFileHunks + 3
    /\ write_blip(stream).pc = "returned"
    /\ \E patch \in PatchFiles(write_blip(stream).out_buf), sourceData \in SourceFiles :
          fl' = apply_to_files_init(patch, sourceData)
    /\ UNCHANGED <<varIntVars, validateVars, stream, wb, rb, df, ap, sb, opt, apo, ob, toolVars>>

FileNext ==
    /\ fl.pc = "running"
    /\ \E debug \in BOOLEAN : fl' = apply_to_files_resume(fl, debug)
    /\ UNCHANGED <<varIntVars, validateVars, stream, wb, rb, df, ap, sb, opt, apo, ob, toolVars>>

NextFiles == PatchHeader \/ PatchItem \/ FileOpen \/ FileNext

SpecFiles == InitPatch /\ [][NextFiles]_vars

\* The checks of apply_to_files on the call that fl holds.
SourceSizeDiffers == At(stream[1], 1) # BigOfInt(Len(fl.sourceData))
SourceCRCDiffers ==
    crc32(fl.sourceData, BigOfInt(0)) # At(stream[Len(stream) - 1], 1)
TargetCRCDiffers ==
    fl.ap.pc # "idle" /\ crc32(fl.ap.target_buf, BigOfInt(0)) # At(stream[Len(stream)], 1)
PatchCRCDiffers ==
    SubSeq(fl.rb.data, Len(fl.rb.data) - 3, Len(fl.rb.data))
        # pack_I(crc32(SubSeq(fl.rb.data, 1, Len(fl.rb.data) - 4), BigOfInt(0)))

\* C15: apply_to_files raises CorruptFile when the source's length is not
\* the header's sourceSize (no hunk has been applied then), when the
\* source's CRC-32 is not the SourceCRC32 value, when the produced target's
\* is not the TargetCRC32 value, or when the patch's own CRC does not match;
\* the target handle has then received nothing; when all checks pass it has
\* received one write, of targetSize bytes.
C15_ApplyToFiles ==
    fl.pc \notin {"idle", "running"} =>
        /\ SourceSizeDiffers => (fl.pc = "CorruptFile" /\ fl.ap.writeOffset = 0
                                 /\ Len(fl.rb.yielded) = 1)
        /\ (SourceSizeDiffers \/ SourceCRCDiffers \/ TargetCRCDiffers \/ PatchCRCDiffers)
              => (fl.pc = "CorruptFile" /\ fl.written = <<>>)
        /\ ~(SourceSizeDiffers \/ SourceCRCDiffers \/ TargetCRCDiffers \/ PatchCRCDiffers)
              => (/\ fl.pc = "returned"
                  /\ Len(fl.written) = 1
                  /\ Len(fl.written[1]) = At(stream[1], 2))

(***************************************************************************)
(* bps/operations.py.  An operation object is a record of its class and    *)
(* its slots; a TargetRead holds _payload, the list of byte strings that   *)
(* the payload property joins, and replaces by the joined string, when it  *)
(* is read.  A call gives the two objects as it leaves them and what it    *)
(* raised.                                                                 *)
(***************************************************************************)
CopyClasses == {"SourceCopy", "TargetCopy"}
CRCClasses == {"SourceCRC32", "TargetCRC32"}

\* The operations that the constructors make, within the bounds.
Operations ==
    {[class |-> "Header", sourceSize |-> 0, targetSize |-> 1, metadata |-> <<>>]}
    \cup {[class |-> "SourceRead", bytespan |-> k] : k \in 1..MaxOpSpan}
    \cup {[class |-> "TargetRead", payload |-> <<p>>] :
             p \in ByteStrings(MaxOpSpan) \ {<<>>}}
    \cup {[class |-> c, bytespan |-> k, offset |-> o] :
             c \in CopyClasses, k \in 1..MaxOpSpan, o \in 0..MaxOpOffset}
    \cup {[class |-> c, value |-> 0] : c \in CRCClasses}

RECURSIVE join(_)
\* b''.join(chunks)
join(chunks) == IF chunks = <<>> THEN <<>> ELSE Head(chunks) \o join(Tail(chunks))

\* op.payload, and op once the property has been read, lines 185-192.
payload(op) == join(op.payload)
payload_read(op) == IF Len(op.payload) > 1 THEN [op EXCEPT !.payload = <<join(@)>>] ELSE op

\* op.bytespan: the slot, the property of TargetRead (lines 194-196) or the
\* class attribute of BaseOperation (line 23).
bytespan(op) ==
    IF op.class \in {"SourceRead"} \cup CopyClasses THEN op.bytespan
    ELSE IF op.class = "TargetRead" THEN Len(payload(op))
    ELSE 0

\* a == b, the __eq__ of the classes.
op_eq(a, b) ==
    /\ a.class = b.class
    /\ IF a.class = "TargetRead" THEN payload(a) = payload(b) ELSE a = b

\* abs(length)
abs(length) == IF length < 0 THEN 0 - length ELSE length

Done(self, other, raised) == [self |-> self, other |-> other, raised |-> raised]

\* _BaseCopy.extend after the isinstance test, lines 265-272; the first
\* form leaves out the test of line 265.
BaseCopy_extend_distant(self, other) ==
    Done([self EXCEPT !.bytespan = @ + other.bytespan], other, "none")
BaseCopy_extend(self, other) ==
    IF other.offset # self.offset + self.bytespan
    THEN Done(self, other, "ValueError")
    ELSE Done([self EXCEPT !.bytespan = @ + other.bytespan], other, "none")

\* self.extend(other), by the class of self.
extend(self, other) ==
    IF self.class \in {"Header"} \cup CRCClasses THEN Done(self, other, "TypeError")
    ELSE IF other.class # self.class THEN Done(self, other, "TypeError")
    ELSE IF self.class = "SourceRead"
    THEN Done([self EXCEPT !.bytespan = @ + other.bytespan], other, "none")
    ELSE IF self.class = "TargetRead"
    THEN Done([self EXCEPT !.payload = Append(@, payload(other))],
              payload_read(other), "none")
    ELSE BaseCopy_extend(self, other)

\* _BaseCopy.shrink from line 283 on; the first form trims the end for
\* either sign.
BaseCopy_shrink_end(self, length) ==
    [self EXCEPT !.bytespan = @ - abs(length)]
BaseCopy_shrink(self, length) ==
    IF length > 0
    THEN [self EXCEPT !.bytespan = @ - length, !.offset = @ + length]
    ELSE [self EXCEPT !.bytespan = @ + length]

\* TargetRead.shrink, lines 214-226; reading self.bytespan reads the payload.
TargetRead_shrink(self, length) ==
    IF length = 0 THEN Done(self, self, "ValueError")
    ELSE IF abs(length) >= bytespan(self) THEN Done(payload_read(self), self, "ValueError")
    ELSE IF length > 0
    THEN Done([self EXCEPT !.payload = <<PySlice(payload(self), length, Len(payload(self)))>>],
              self, "none")
    ELSE Done([self EXCEPT !.payload = <<PySlice(payload(self), 0, length)>>],
              self, "none")

\* self.shrink(length), by the class of self; `other` of the result is self
\* as it was.
shrink(self, length) ==
    IF self.class \in {"Header"} \cup CRCClasses THEN Done(self, self, "TypeError")
    ELSE IF self.class = "TargetRead" THEN TargetRead_shrink(self, length)
    ELSE IF length = 0 \/ abs(length) >= self.bytespan THEN Done(self, self, "ValueError")
    ELSE IF self.class = "SourceRead"
    THEN Done([self EXCEPT !.bytespan = @ - abs(length)], self, "none")
    ELSE Done(BaseCopy_shrink(self, length), self, "none")

(***************************************************************************)
(* Calls of extend and shrink on two operation objects.  ob holds the two  *)
(* objects and the last call: its name, which object was self, the length  *)
(* passed to shrink, the two objects as they were before it and what it    *)
(* raised.                                                                 *)
(***************************************************************************)
InitOps ==
    /\ ob \in [ops : Operations \X Operations,
               call : {[name |-> "none", self |-> 1, length |-> 0,
                        was |-> <<>>, raised |-> "none"]}]
    /\ sb = <<>>
    /\ cs = check_stream_init
    /\ got = Idle
    /\ taken = 0
    /\ out = <<>>
    /\ yields = 0
    /\ written = 0
    /\ stream = <<>>
    /\ wb = Idle
    /\ rb = Idle
    /\ df = Idle
    /\ ap = Idle
    /\ opt = Idle
    /\ apo = Idle
    /\ fl = Idle
    /\ ToolIdle
    /\ VarIntIdle

\* ops[i].extend(ops[3 - i]) has run and given r.
Extended(i, r) ==
    ob' = [ops |-> [ob.ops EXCEPT ![i] = r.self, ![3 - i] = r.other],
           call |-> [name |-> "extend", self |-> i, length |-> 0,
                     was |-> ob.ops, raised |-> r.raised]]

OpsExtend ==
    /\ \E i \in 1..2 :
          /\ bytespan(ob.ops[1]) <= MaxOpSpan
          /\ bytespan(ob.ops[2]) <= MaxOpSpan
          /\ Extended(i, extend(ob.ops[i], ob.ops[3 - i]))
    /\ UNCHANGED <<varIntVars, validateVars, stream, wb, rb, df, ap, sb, opt, apo, fl, toolVars>>

\* ops[i].shrink(length) has run and given r.
Shrunk(i, length, r) ==
    ob' = [ops |-> [ob.ops EXCEPT ![i] = r.self],
           call |-> [name |-> "shrink", self |-> i, length |-> length,
                     was |-> ob.ops, raised |-> r.raised]]

OpsShrink ==
    /\ \E i \in 1..2, length \in (0 - MaxShrink)..MaxShrink :
          Shrunk(i, length, shrink(ob.ops[i], length))
    /\ UNCHANGED <<varIntVars, validateVars, stream, wb, rb, df, ap, sb, opt, apo, fl, toolVars>>

NextOps == OpsExtend \/ OpsShrink

SpecOps == InitOps /\ [][NextOps]_vars

\* The objects of the last call: self and other before and after it.
WasSelf == ob.call.was[ob.call.self]
WasOther == ob.call.was[3 - ob.call.self]
NowSelf == ob.ops[ob.call.self]
NowOther == ob.ops[3 - ob.call.self]

\* The pairs that the claim lets extend.
Extensible(a, b) ==
    /\ a.class = b.class
    /\ \/ a.class \in {"SourceRead", "TargetRead"}
       \/ a.class \in CopyClasses /\ b.offset = a.offset + a.bytespan

\* C19: a.extend(b) succeeds only for two SourceReads, two TargetReads and
\* two copies of one kind with b.offset = a.offset + a.bytespan; a.bytespan
\* is then the sum (the payloads of TargetReads joined in order), a.offset
\* and b are as they were.  Every other pair raises TypeError (another
\* kind, a Header, a CRC) or ValueError (copies that are not contiguous) and
\* leaves a and b as they were.
C19_Extend ==
    ob.call.name = "extend" =>
        IF Extensible(WasSelf, WasOther)
        THEN /\ ob.call.raised = "none"
             /\ NowSelf.class = WasSelf.class
             /\ bytespan(NowSelf) = bytespan(WasSelf) + bytespan(WasOther)
             /\ WasSelf.class = "TargetRead" =>
                   payload(NowSelf) = payload(WasSelf) \o payload(WasOther)
             /\ WasSelf.class \in CopyClasses => NowSelf.offset = WasSelf.offset
             /\ op_eq(NowOther, WasOther)
        ELSE /\ ob.call.raised =
                   (IF WasSelf.class = WasOther.class /\ WasSelf.class \in CopyClasses
                    THEN "ValueError" ELSE "TypeError")
             /\ op_eq(NowSelf, WasSelf)
             /\ op_eq(NowOther, WasOther)

\* SourceCopy(1, 0) has been extended with SourceCopy(2, 1).
C19_Witness ==
    /\ ob.call.name = "extend"
    /\ ob.call.raised = "none"
    /\ WasSelf = [class |-> "SourceCopy", bytespan |-> 1, offset |-> 0]
    /\ WasOther = [class |-> "SourceCopy", bytespan |-> 2, offset |-> 1]
    /\ NowSelf = [class |-> "SourceCopy", bytespan |-> 3, offset |-> 0]

\* C20: op.shrink(n) on a SourceRead, a TargetRead or a copy raises
\* ValueError and leaves op as it was when n = 0 or |n| >= op.bytespan;
\* otherwise bytespan goes down by |n|, a positive n takes the bytes from
\* the front (a copy's offset goes up by n, offset + bytespan stays; a
\* TargetRead loses its first n payload bytes) and a negative n from the
\* back (offset as it was; a TargetRead loses its last |n| payload bytes).
\* On a Header or a CRC it raises TypeError for every n.
C20_Shrink ==
    ob.call.name = "shrink" =>
        IF WasSelf.class \in {"Header"} \cup CRCClasses
        THEN ob.call.raised = "TypeError"
        ELSE IF ob.call.length = 0 \/ abs(ob.call.length) >= bytespan(WasSelf)
        THEN ob.call.raised = "ValueError" /\ op_eq(NowSelf, WasSelf)
        ELSE /\ ob.call.raised = "none"
             /\ NowSelf.class = WasSelf.class
             /\ bytespan(NowSelf) = bytespan(WasSelf) - abs(ob.call.length)
             /\ WasSelf.class \in CopyClasses =>
                   IF ob.call.length > 0
                   THEN /\ NowSelf.offset = WasSelf.offset + ob.call.length
                        /\ NowSelf.offset + NowSelf.bytespan
                              = WasSelf.offset + WasSelf.bytespan
                   ELSE NowSelf.offset = WasSelf.offset
             /\ WasSelf.class = "TargetRead" =>
                   IF ob.call.length > 0
                   THEN payload(NowSelf) = SubSeq(payload(WasSelf), ob.call.length + 1,
                                                  Len(payload(WasSelf)))
                   ELSE payload(NowSelf) = SubSeq(payload(WasSelf), 1,
                                                  Len(payload(WasSelf))
                                                    + ob.call.length)

\* TargetCopy(3, 0) has been shrunk by 2 from the front to TargetCopy(1, 2).
C20_Witness ==
    /\ ob.call.name = "shrink"
    /\ ob.call.length = 2
    /\ ob.call.raised = "none"
    /\ WasSelf = [class |-> "TargetCopy", bytespan |-> 3, offset |-> 0]
    /\ NowSelf = [class |-> "TargetCopy", bytespan |-> 1, offset |-> 2]

(***************************************************************************)
(* OpBuffer of bps/operations.py.  _buf is a list of                       *)
(* <<operation, lastSourceCopyOffset, lastTargetCopyOffset>>.              *)
(***************************************************************************)
RECURSIVE append_rollback(_, _)
\* `while self._buf and rollback >= self._buf[-1][0].bytespan`, lines
\* 389-391: the buffer and the rollback that the loop leaves.
append_rollback(buf, rollback) ==
    IF buf # <<>> /\ rollback >= bytespan(buf[Len(buf)][1])
    THEN append_rollback(SubSeq(buf, 1, Len(buf) - 1),
                         rollback - bytespan(buf[Len(buf)][1]))
    ELSE [buf |-> buf, rollback |-> rollback]

\* `if rollback:`, lines 394-405: b is what the loop left.  The first form
\* trims the new operation whatever the last operation is.
append_shrink_front(b, operation) ==
    IF b.rollback = 0 THEN [buf |-> b.buf, operation |-> operation, raised |-> "none"]
    ELSE [buf |-> b.buf, operation |-> shrink(operation, b.rollback).self,
          raised |-> shrink(operation, b.rollback).raised]
append_shrink(b, operation) ==
    IF b.rollback = 0 THEN [buf |-> b.buf, operation |-> operation, raised |-> "none"]
    ELSE IF b.buf # <<>> /\ b.buf[Len(b.buf)][1].class = "TargetRead"
    THEN [buf |-> [b.buf EXCEPT ![Len(b.buf)][1] = shrink(@, 0 - b.rollback).self],
          operation |-> operation,
          raised |-> shrink(b.buf[Len(b.buf)][1], 0 - b.rollback).raised]
    ELSE [buf |-> b.buf, operation |-> shrink(operation, b.rollback).self,
          raised |-> shrink(operation, b.rollback).raised]

\* Lines 407-419: the offsets kept with the operation, and the buffer with
\* the operation appended; s is what the lines before left.  Nothing is
\* appended when shrink has raised.
append_store(s) ==
    IF s.raised # "none" THEN [buf |-> s.buf, raised |-> s.raised]
    ELSE [buf |-> Append(s.buf,
                    <<s.operation,
                      IF s.operation.class = "SourceCopy"
                      THEN s.operation.offset + s.operation.bytespan
                      ELSE IF s.buf = <<>> THEN 0 ELSE s.buf[Len(s.buf)][2],
                      IF s.operation.class = "TargetCopy"
                      THEN s.operation.offset + s.operation.bytespan
                      ELSE IF s.buf = <<>> THEN 0 ELSE s.buf[Len(s.buf)][3]>>),
          raised |-> "none"]

\* OpBuffer.append(operation, rollback) on the buffer buf.
append(buf, operation, rollback) ==
    append_store(append_shrink(append_rollback(buf, rollback), operation))

RECURSIVE copy_offsets_loop(_, _, _, _)
\* `while index >= 0`, lines 427-433; index counts from 1 here, and last is
\* <<lastSourceCopyOffset, lastTargetCopyOffset>>.
copy_offsets_loop(buf, index, rollback, last) ==
    IF index < 1 THEN last
    ELSE IF rollback < bytespan(buf[index][1]) THEN <<buf[index][2], buf[index][3]>>
    ELSE copy_offsets_loop(buf, index - 1, rollback - bytespan(buf[index][1]),
                           <<buf[index][2], buf[index][3]>>)

\* OpBuffer.copy_offsets(rollback)
copy_offsets(buf, rollback) == copy_offsets_loop(buf, Len(buf), rollback, <<0, 0>>)

(***************************************************************************)
(* Calls of append and copy_offsets on one OpBuffer.  obuf holds _buf and  *)
(* the last call: its name, its arguments, _buf as it was before the call, *)
(* what the call raised and what it returned.                              *)
(***************************************************************************)
\* The operations that are appended.
BufferOperations ==
    {op \in Operations :
        IF op.class = "SourceRead" THEN op.bytespan \in {1, MaxOpSpan}
        ELSE IF op.class = "TargetRead" THEN payload(op) \in {<<65>>, <<65, 66>>}
        ELSE IF op.class = "SourceCopy"
        THEN <<op.bytespan, op.offset>> \in {<<1, 1>>, <<MaxOpSpan, 0>>}
        ELSE IF op.class = "TargetCopy" THEN <<op.bytespan, op.offset>> = <<1, 0>>
        ELSE op.class = "Header"}

OthersIdle ==
    /\ VarIntIdle
    /\ ValidateIdle
    /\ IOIdle
    /\ df = Idle
    /\ ap = Idle
    /\ sb = <<>>
    /\ opt = Idle
    /\ apo = Idle
    /\ fl = Idle

InitBuffer ==
    /\ obuf = [buf |-> <<>>,
               call |-> [name |-> "none", operation |-> <<>>, rollback |-> 0,
                         was |-> <<>>, raised |-> "none", returned |-> <<>>]]
    /\ ob = Idle
    /\ cw = Idle
    /\ asm = Idle
    /\ OthersIdle

\* append(operation, rollback) has run and given r.
Appended(operation, rollback, r) ==
    obuf' = [buf |-> r.buf,
             call |-> [name |-> "append", operation |-> operation,
                       rollback |-> rollback, was |-> obuf.buf,
                       raised |-> r.raised, returned |-> <<>>]]

BufferAppend ==
    /\ Len(obuf.buf) <= MaxBufferOps
    /\ \E operation \in BufferOperations, rollback \in 0..MaxRollback :
          Appended(operation, rollback, append(obuf.buf, operation, rollback))
    /\ UNCHANGED <<varIntVars, validateVars, ioVars, diffVars, cw, asm>>

BufferCopyOffsets ==
    /\ \E rollback \in 0..MaxRollback :
          obuf' = [obuf EXCEPT
                      !.call = [name |-> "copy_offsets", operation |-> <<>>,
                                rollback |-> rollback, was |-> obuf.buf,
                                raised |-> "none",
                                returned |-> copy_offsets(obuf.buf, rollback)]]
    /\ UNCHANGED <<varIntVars, validateVars, ioVars, diffVars, cw, asm>>

NextBuffer == BufferAppend \/ BufferCopyOffsets

SpecBuffer == InitBuffer /\ [][NextBuffer]_vars

RECURSIVE buffer_bytespan(_)
\* The bytespans of the operations of buf, summed.
buffer_bytespan(buf) ==
    IF buf = <<>> THEN 0 ELSE bytespan(Head(buf)[1]) + buffer_bytespan(Tail(buf))

\* The operations at the end of buf that `rollback` bytes cover whole: the
\* most there can be, counted from the end.
Covered(buf, rollback) ==
    CHOOSE k \in 0..Len(buf) :
        /\ buffer_bytespan(SubSeq(buf, Len(buf) - k + 1, Len(buf))) <= rollback
        /\ \A j \in (k + 1)..Len(buf) :
              buffer_bytespan(SubSeq(buf, Len(buf) - j + 1, Len(buf))) > rollback

\* What is left of buf without them, and what is left of the rollback.
Kept(buf, rollback) == SubSeq(buf, 1, Len(buf) - Covered(buf, rollback))
Residual(buf, rollback) == rollback - (buffer_bytespan(buf) - buffer_bytespan(Kept(buf, rollback)))

TailIsTargetRead(buf) == buf # <<>> /\ buf[Len(buf)][1].class = "TargetRead"

\* The operation without its first `length` bytes, and a TargetRead without
\* its last `length` bytes.
WithoutFront(op, length) ==
    IF length = 0 THEN op
    ELSE IF op.class = "TargetRead"
    THEN [op EXCEPT !.payload = <<SubSeq(payload(op), length + 1, Len(payload(op)))>>]
    ELSE IF op.class = "SourceRead" THEN [op EXCEPT !.bytespan = @ - length]
    ELSE [op EXCEPT !.bytespan = @ - length, !.offset = @ + length]
WithoutBack(op, length) ==
    [op EXCEPT !.payload = <<SubSeq(payload(op), 1, Len(payload(op)) - length)>>]

\* The operations of a buffer, without the offsets kept with them.
BufferOps(buf) == [i \in 1..Len(buf) |-> buf[i][1]]

\* What append is to leave, by the rollback and the operation.
AppendLeaves(was, operation, rollback) ==
    IF Residual(was, rollback) > 0 /\ TailIsTargetRead(Kept(was, rollback))
    THEN SubSeq(BufferOps(was), 1, Len(Kept(was, rollback)) - 1)
         \o <<WithoutBack(Kept(was, rollback)[Len(Kept(was, rollback))][1],
                          Residual(was, rollback))>>
         \o <<operation>>
    ELSE BufferOps(Kept(was, rollback))
         \o <<WithoutFront(operation, Residual(was, rollback))>>

AppendCalled ==
    /\ obuf # Idle
    /\ obuf.call.name = "append"
    /\ obuf.call.rollback <= buffer_bytespan(obuf.call.was)

\* The residual, when it comes off the front of the operation, leaves some
\* of the operation.
Advances(was, operation, rollback) ==
    \/ Residual(was, rollback) = 0
    \/ TailIsTargetRead(Kept(was, rollback))
    \/ Residual(was, rollback) < bytespan(operation)

AppendDoes ==
    /\ obuf.call.raised = "none"
    /\ BufferOps(obuf.buf)
         = AppendLeaves(obuf.call.was, obuf.call.operation, obuf.call.rollback)
    /\ buffer_bytespan(obuf.buf)
         = buffer_bytespan(obuf.call.was) - obuf.call.rollback
           + bytespan(obuf.call.operation)

\* C21 as stated: append(op, r) with 0 <= r <= the bytespan held removes the
\* trailing operations that r covers whole, takes the residual off the back
\* of the new tail if that is a TargetRead and else off the front of op, and
\* leaves old total - r + op's bytespan in the buffer, with the operations
\* in front of the rollback point unchanged.
C21_AppendAnyResidual == AppendCalled => AppendDoes

\* C21, amended: the same when the residual is zero, or the new tail is a
\* TargetRead, or the residual is smaller than op's bytespan; otherwise
\* append raises, appends nothing and leaves the buffer without the
\* operations it has removed.
C21_Append ==
    AppendCalled =>
        IF Advances(obuf.call.was, obuf.call.operation, obuf.call.rollback)
        THEN AppendDoes
        ELSE /\ obuf.call.raised \in {"ValueError", "TypeError"}
             /\ obuf.buf = Kept(obuf.call.was, obuf.call.rollback)

\* An append that removed an operation and trimmed a TargetRead, and one
\* that raised after it had removed an operation.
C21_Witness ==
    /\ AppendCalled
    /\ obuf.call.raised = "none"
    /\ Covered(obuf.call.was, obuf.call.rollback) > 0
    /\ Residual(obuf.call.was, obuf.call.rollback) > 0
    /\ TailIsTargetRead(Kept(obuf.call.was, obuf.call.rollback))
    /\ Len(obuf.buf) = 2

C21_Raised ==
    /\ AppendCalled
    /\ obuf.call.raised = "ValueError"
    /\ Covered(obuf.call.was, obuf.call.rollback) > 0

RECURSIVE LastCopyEnd(_, _)
\* The end of the most recent operation of class c in ops, 0 if none.
LastCopyEnd(ops, c) ==
    IF ops = <<>> THEN 0
    ELSE IF ops[Len(ops)].class = c
    THEN ops[Len(ops)].offset + ops[Len(ops)].bytespan
    ELSE LastCopyEnd(SubSeq(ops, 1, Len(ops) - 1), c)

CopyOffsetsCalled == obuf # Idle /\ obuf.call.name = "copy_offsets"

\* C22: copy_offsets(r) returns the ends of the most recent SourceCopy and
\* of the most recent TargetCopy among the operations that remain when the
\* trailing operations that r covers whole are removed, 0 for a kind that
\* has none, so <<0, 0>> when no operation remains.
C22_CopyOffsets ==
    CopyOffsetsCalled =>
        obuf.call.returned
          = <<LastCopyEnd(BufferOps(Kept(obuf.call.was, obuf.call.rollback)), "SourceCopy"),
              LastCopyEnd(BufferOps(Kept(obuf.call.was, obuf.call.rollback)), "TargetCopy")>>

\* C22 holds of every call that leaves an operation in the buffer.
C22_SomeRemains ==
    (CopyOffsetsCalled /\ Kept(obuf.call.was, obuf.call.rollback) # <<>>) => C22_CopyOffsets

(***************************************************************************)
(* CRCIOWrapper of blip/util.py over an io.BytesIO.  The stream is its     *)
(* bytes and its position; a size that is None is <<>>, a size k is <<k>>. *)
(***************************************************************************)
\* io.BytesIO: read(size), write(data) and truncate(size) on the stream f.
BytesIO_read_data(f, size) ==
    IF size = <<>> \/ size[1] < 0 THEN SubSeq(f.data, f.pos + 1, Len(f.data))
    ELSE SubSeq(f.data, f.pos + 1, Min(f.pos + size[1], Len(f.data)))
BytesIO_read(f, size) ==
    [f EXCEPT !.pos = Max(f.pos, f.pos + Len(BytesIO_read_data(f, size)))]
BytesIO_write(f, data) ==
    IF data = <<>> THEN f
    ELSE [data |-> SubSeq(f.data, 1, Min(f.pos, Len(f.data)))
                   \o [i \in 1..(f.pos - Len(f.data)) |-> 0]
                   \o data
                   \o SubSeq(f.data, f.pos + Len(data) + 1, Len(f.data)),
          pos |-> f.pos + Len(data)]
BytesIO_truncate(f, size) ==
    [f EXCEPT !.data = SubSeq(@, 1, Min(Len(@), IF size = <<>> THEN f.pos ELSE size[1]))]

\* CRCIOWrapper.__init__
CRCIOWrapper_init(inner) == [inner |-> inner, crc32 |-> BigOfInt(0)]

\* _update_crc32; the first form leaves the CRC as it is.
update_crc32_not(self, data) == self
update_crc32(self, data) == [self EXCEPT !.crc32 = crc32(data, @)]

\* read(size) and write(data): the wrapper afterwards.
CRCIOWrapper_read(self, size) ==
    [update_crc32(self, BytesIO_read_data(self.inner, size))
        EXCEPT !.inner = BytesIO_read(@, size)]
CRCIOWrapper_write(self, data) ==
    [update_crc32(self, data) EXCEPT !.inner = BytesIO_write(@, data)]

\* truncate(size): the wrapper afterwards and what was raised.  The first
\* form keeps the CRC when the size is 0.
CRCIOWrapper_truncate_keeping(self, size) ==
    IF size \notin {<<>>, <<0>>}
    THEN [self |-> self, raised |-> "UnsupportedOperation"]
    ELSE [self |-> [self EXCEPT !.inner = BytesIO_truncate(@, size)], raised |-> "none"]
CRCIOWrapper_truncate(self, size) ==
    IF size \notin {<<>>, <<0>>}
    THEN [self |-> self, raised |-> "UnsupportedOperation"]
    ELSE [self |-> [self EXCEPT !.crc32 = IF size = <<0>> THEN BigOfInt(0) ELSE @,
                                !.inner = BytesIO_truncate(@, size)],
          raised |-> "none"]

\* seek(offset)
CRCIOWrapper_seek(self, offset) == [self |-> self, raised |-> "UnsupportedOperation"]

(***************************************************************************)
(* Calls on one CRCIOWrapper.  cw holds the wrapper, the bytes that have   *)
(* gone through read and write since it was made or truncated to 0, and    *)
(* the last call: its name, its size, the wrapper as it was and what the   *)
(* call raised.                                                            *)
(***************************************************************************)
Sizes == {<<>>} \cup {<<k>> : k \in (0 - 1)..MaxSize}

InitWrapper ==
    /\ \E data \in ByteStrings(MaxInner), pos \in {0} :
          cw = [self |-> CRCIOWrapper_init([data |-> data, pos |-> pos]),
                through |-> <<>>,
                call |-> [name |-> "none", size |-> <<>>, was |-> <<>>, raised |-> "none"]]
    /\ obuf = Idle
    /\ ob = Idle
    /\ asm = Idle
    /\ OthersIdle

\* The call `name` with `size` has given the wrapper self and raised
\* `raised`, `data` having gone through it.
Wrapped(name, size, self, raised, data) ==
    cw' = [self |-> self,
           through |-> IF name = "truncate" /\ size = <<0>> THEN <<>>
                       ELSE cw.through \o data,
           call |-> [name |-> name, size |-> size, was |-> cw.self, raised |-> raised]]

WrapperRead ==
    /\ Len(cw.through) < MaxWrapped
    /\ \E size \in Sizes :
          Wrapped("read", size, CRCIOWrapper_read(cw.self, size), "none",
                  BytesIO_read_data(cw.self.inner, size))
    /\ UNCHANGED <<varIntVars, validateVars, ioVars, diffVars, ob, obuf, asm>>

WrapperWrite ==
    /\ Len(cw.through) < MaxWrapped
    /\ cw.self.inner.pos <= MaxPos
    /\ \E data \in ByteStrings(MaxWrite) :
          Wrapped("write", <<>>, CRCIOWrapper_write(cw.self, data), "none", data)
    /\ UNCHANGED <<varIntVars, validateVars, ioVars, diffVars, ob, obuf, asm>>

WrapperSeek ==
    /\ \E offset \in 0..MaxSize :
          Wrapped("seek", <<offset>>, CRCIOWrapper_seek(cw.self, offset).self,
                  CRCIOWrapper_seek(cw.self, offset).raised, <<>>)
    /\ UNCHANGED <<varIntVars, validateVars, ioVars, diffVars, ob, obuf, asm>>

WrapperTruncate ==
    /\ \E size \in Sizes :
          Wrapped("truncate", size, CRCIOWrapper_truncate(cw.self, size).self,
                  CRCIOWrapper_truncate(cw.self, size).raised, <<>>)
    /\ UNCHANGED <<varIntVars, validateVars, ioVars, diffVars, ob, obuf, asm>>

NextWrapper == WrapperRead \/ WrapperWrite \/ WrapperSeek \/ WrapperTruncate

SpecWrapper == InitWrapper /\ [][NextWrapper]_vars

WrapperCalled(name) == cw # Idle /\ cw.call.name = name

\* C23: seek always raises UnsupportedOperation; truncate(size) with a size
\* other than None and 0 raises UnsupportedOperation and changes neither the
\* data nor the running CRC; truncate() leaves the running CRC unchanged;
\* truncate(0) empties the stream and sets the running CRC to 0.
C23_SeekTruncate ==
    /\ WrapperCalled("seek") => cw.call.raised = "UnsupportedOperation"
    /\ WrapperCalled("truncate") =>
          IF cw.call.size \notin {<<>>, <<0>>}
          THEN /\ cw.call.raised = "UnsupportedOperation"
               /\ cw.self.inner.data = cw.call.was.inner.data
               /\ cw.self.crc32 = cw.call.was.crc32
          ELSE IF cw.call.size = <<>>
          THEN cw.call.raised = "none" /\ cw.self.crc32 = cw.call.was.crc32
          ELSE /\ cw.call.raised = "none"
               /\ cw.self.inner.data = <<>>
               /\ cw.self.crc32 = BigOfInt(0)

\* A truncate(0) of a stream that holds bytes, under a running CRC that is
\* not 0.
C23_Witness ==
    /\ WrapperCalled("truncate")
    /\ cw.call.size = <<0>>
    /\ cw.call.was.inner.data # <<>>
    /\ cw.call.was.crc32 # BigOfInt(0)

\* C24: after any reads and writes the crc32 attribute is the CRC-32 of all
\* the bytes read or written, in call order, since the wrapper was made or
\* last truncated to 0; 0 when there are none.
C24_RunningCRC ==
    cw # Idle =>
        /\ cw.self.crc32 = crc32(cw.through, BigOfInt(0))
        /\ cw.through = <<>> => cw.self.crc32 = BigOfInt(0)

\* A read after a write after a truncate(0), with bytes gone through before
\* the truncate.
C24_Witness ==
    /\ WrapperCalled("read")
    /\ Len(cw.through) >= 2
    /\ cw.self.inner.pos > Len(cw.through)

(***************************************************************************)
(* One complete encoding through read_var_int and then encode_var_int.     *)
(***************************************************************************)
\* Byte strings that read_var_int decodes completely: bytes with bit 0x80
\* clear, then one byte with bit 0x80 set.
Encodings ==
    {Pattern(len, lo, hi) : len \in 1..MaxDigits, lo \in {0, 1, 127}, hi \in {128, 129, 255}}

InitDecode ==
    /\ \E b \in Encodings : rd = read_var_int_init(b, 0)
    /\ n = BigOfInt(0)
    /\ enc = Idle
    /\ ValidateIdle
    /\ IOIdle
    /\ DiffIdle

\* encode_var_int(read_var_int(b)) is called.
EncodeBegin ==
    /\ rd.pc = "return"
    /\ enc = Idle
    /\ n' = rd.res
    /\ enc' = encode_var_int_init(rd.res)
    /\ UNCHANGED <<rd, validateVars, ioVars, diffVars, toolVars>>

NextDecode == ReadPass \/ EncodeBegin \/ EncodePass

SpecDecode == InitDecode /\ [][NextDecode]_vars

\* C25: for every byte string b of bytes with bit 0x80 clear followed by one
\* byte with bit 0x80 set, encode_var_int(read_var_int(b)) returns b.
C25_Unique ==
    /\ rd.pc # "IndexError"
    /\ (enc # Idle /\ enc.pc = "loop") =>
          /\ enc.passes < Len(rd.data)
          /\ enc.buf = SubSeq(rd.data, 1, enc.passes)
    /\ (enc # Idle /\ enc.pc = "return") => enc.buf = rd.data

\* C25 holds of the encodings of at most 20 bytes.
C25_UniqueBelow21 == (rd # Idle /\ Len(rd.data) <= 20) => C25_Unique

(***************************************************************************)
(* blip/io.py: the metadata of a header through write_blip_asm and         *)
(* read_blip_asm.  A text is a sequence of characters; the text file holds *)
(* what follows the "metadata:" line.                                      *)
(***************************************************************************)
RECURSIVE split(_, _)
\* s.split(sep) for a separator of one character.
split(s, sep) ==
    IF \A i \in 1..Len(s) : s[i] # sep THEN <<s>>
    ELSE LET i == CHOOSE i \in 1..Len(s) : s[i] = sep /\ \A j \in 1..(i - 1) : s[j] # sep
         IN  <<SubSeq(s, 1, i - 1)>> \o split(SubSeq(s, i + 1, Len(s)), sep)

\* line.startswith(".")
startswith_dot(line) == line # <<>> /\ line[1] = "."

\* in_buf.readline() at the position pos of text: up to and with the next
\* newline, or up to the end.
readline(text, pos) ==
    IF \E i \in (pos + 1)..Len(text) : text[i] = "\n"
    THEN SubSeq(text, pos + 1,
                CHOOSE i \in (pos + 1)..Len(text) :
                    text[i] = "\n" /\ \A j \in (pos + 1)..(i - 1) : text[j] # "\n")
    ELSE SubSeq(text, pos + 1, Len(text))

\* write_blip_asm, lines 459-461: the lines of the metadata that are to be
\* written.
metadata_lines(metadata) ==
    IF split(metadata, "\n")[Len(split(metadata, "\n"))] = <<>>
    THEN SubSeq(split(metadata, "\n"), 1, Len(split(metadata, "\n")) - 1)
    ELSE split(metadata, "\n")

\* Lines 462-468, one pass of `for line in lines`.
write_line(out_buf, line) ==
    IF startswith_dot(line) THEN out_buf \o <<".">> \o line \o <<"\n">>
    ELSE out_buf \o line \o <<"\n">>

\* _read_multiline_text, one pass of its loop on the reader r.  At the end
\* of the text readline gives '' for ever and the loop does not end.
read_multiline_text_pass(r, line) ==
    IF line = <<".", "\n">>
    THEN [r EXCEPT !.pc = "return", !.pos = @ + Len(line)]
    ELSE IF line = <<>> THEN [r EXCEPT !.pc = "does not return"]
    ELSE [r EXCEPT !.pos = @ + Len(line),
                   !.lines = Append(@, IF startswith_dot(line) THEN Tail(line) ELSE line)]

Characters == {"a", ".", "\n"}
RECURSIVE Texts(_)
\* The texts of at most len characters.
Texts(len) ==
    IF len = 0 THEN {<<>>}
    ELSE Texts(len - 1)
         \cup {Append(t, c) : t \in {x \in Texts(len - 1) : Len(x) = len - 1},
                              c \in Characters}

InitAsm ==
    /\ \E metadata \in Texts(MaxMetadata) :
          asm = [pc |-> "write", metadata |-> metadata,
                 todo |-> metadata_lines(metadata), text |-> <<>>,
                 pos |-> 0, lines |-> <<>>]
    /\ obuf = Idle
    /\ ob = Idle
    /\ cw = Idle
    /\ OthersIdle

\* write_blip_asm writes one line of the metadata.
AsmWriteLine ==
    /\ asm.pc = "write"
    /\ asm.todo # <<>>
    /\ asm' = [asm EXCEPT !.text = write_line(@, Head(asm.todo)), !.todo = Tail(@)]
    /\ UNCHANGED <<varIntVars, validateVars, ioVars, diffVars, ob, obuf, cw>>

\* write_blip_asm writes the line that ends the metadata, line 470, and
\* read_blip_asm is called on the text.
AsmWriteEnd ==
    /\ asm.pc = "write"
    /\ asm.todo = <<>>
    /\ asm' = [asm EXCEPT !.text = @ \o <<".", "\n">>, !.pc = "read"]
    /\ UNCHANGED <<varIntVars, validateVars, ioVars, diffVars, ob, obuf, cw>>

\* One pass of _read_multiline_text.
AsmReadLine ==
    /\ asm.pc = "read"
    /\ asm' = read_multiline_text_pass(asm, readline(asm.text, asm.pos))
    /\ UNCHANGED <<varIntVars, validateVars, ioVars, diffVars, ob, obuf, cw>>

NextAsm == AsmWriteLine \/ AsmWriteEnd \/ AsmReadLine

SpecAsm == InitAsm /\ [][NextAsm]_vars

\* "".join(lines), the metadata of the header that read_blip_asm yields.
MetadataRead == join(asm.lines)

\* C26: for every metadata m the header read by read_blip_asm from the text
\* that write_blip_asm writes for m has metadata equal to m.
C26_MetadataRoundTrip ==
    (asm # Idle /\ asm.pc \notin {"write", "read"}) =>
        /\ asm.pc = "return"
        /\ MetadataRead = asm.metadata

\* What the model has instead: the text read ends where the text written
\* ends, and the metadata is given back with a newline after its last line.
C26_WithFinalNewline ==
    (asm # Idle /\ asm.pc \notin {"write", "read"}) =>
        /\ asm.pc = "return"
        /\ asm.pos = Len(asm.text)
        /\ MetadataRead = IF asm.metadata = <<>> \/ asm.metadata[Len(asm.metadata)] = "\n"
                          THEN asm.metadata
                          ELSE asm.metadata \o <<"\n">>

(***************************************************************************)
(* check_stream(diff_bytearrays(source, target)) drawn to its end: every   *)
(* next() on check_stream resumes the differ for its next operation.       *)
(***************************************************************************)
InitDiffCheck ==
    /\ \E source \in ByteStrings(MaxDiffSource), target \in ByteStrings(MaxDiffTarget) :
          df = diff_init(source, target)
    /\ ap = Idle
    /\ cs = check_stream_init
    /\ got = Idle
    /\ taken = 0
    /\ out = <<>>
    /\ yields = 0
    /\ written = 0
    /\ PatchIdle
    /\ VarIntIdle
    /\ IOIdle

\* check_stream is resumed and resumes the differ, which is then as d says.
\* A StopIteration raised inside the differ leaves it as a RuntimeError.
DiffChecked(d) ==
    /\ cs.pc \notin {"raised", "returned", "RuntimeError"}
    /\ df' = d
    /\ IF d.pc = "StopIteration"
       THEN /\ cs' = [cs EXCEPT !.pc = "RuntimeError"]
            /\ UNCHANGED <<got, taken, out, yields, written>>
       ELSE Resumed(IF d.pc = "returned" THEN StopIteration
                    ELSE Gives(d.yielded[Len(d.yielded)]))
    /\ UNCHANGED <<varIntVars, ioVars, ap, sb, opt, apo, fl, ob, toolVars>>

DiffCheckNext == DiffChecked(diff_resume(df))

SpecDiffCheck == InitDiffCheck /\ [][DiffCheckNext]_vars

RECURSIVE WrittenBefore(_, _)
\* The target write offset at which the i-th operation yielded is emitted.
WrittenBefore(yielded, i) ==
    IF i <= 1 THEN 0 ELSE WrittenBefore(yielded, i - 1) + op_size(yielded[i - 1])

\* The i-th operation yielded reads inside the source and the written part
\* of the target.
ReadsInside(d, i) ==
    /\ At(d.yielded[i], 0) = SOURCEREAD =>
          WrittenBefore(d.yielded, i) + At(d.yielded[i], 1) <= Len(d.source)
    /\ At(d.yielded[i], 0) = SOURCECOPY =>
          At(d.yielded[i], 2) + At(d.yielded[i], 1) <= Len(d.source)
    /\ At(d.yielded[i], 0) = TARGETCOPY =>
          At(d.yielded[i], 2) < WrittenBefore(d.yielded, i)

\* C27: for every source S and target T the stream of diff_bytearrays is
\* accepted by check_stream: it starts with Header(len(S), len(T)), its
\* SourceReads and SourceCopies end inside the source, its TargetCopies
\* start before the write offset, and it ends with SourceCRC32(crc32(S)),
\* then TargetCRC32(crc32(T)).
C27_DiffAccepted ==
    /\ cs.pc \notin {"raised", "RuntimeError"}
    /\ df.yielded # <<>> =>
          df.yielded[1] = <<BLIP_MAGIC, BigOfInt(Len(df.source)), Len(df.target), <<>>>>
    /\ \A i \in 1..Len(df.yielded) : ReadsInside(df, i)
    /\ df.pc = "returned" =>
          /\ cs.pc = "returned"
          /\ Len(df.yielded) >= 3
          /\ df.yielded[Len(df.yielded) - 1] = <<SOURCECRC32, crc32(df.source, BigOfInt(0))>>
          /\ df.yielded[Len(df.yielded)] = <<TARGETCRC32, crc32(df.target, BigOfInt(0))>>
          /\ WrittenBefore(df.yielded, Len(df.yielded)) = Len(df.target)

\* The same of the streams made with blocks of one byte, as far as the
\* operations go: what check_stream does with them is left out.
C27_OneByteBlocks ==
    df.blocksize = 1 =>
        /\ cs.pc # "RuntimeError"
        /\ \A i \in 1..Len(df.yielded) : ReadsInside(df, i)
        /\ df.pc = "returned" =>
              WrittenBefore(df.yielded, Len(df.yielded)) = Len(df.target)

\* C28: when the search loop of diff_bytearrays ends with bytes of the
\* target left to write, the one TargetRead emitted after it carries
\* target[targetWriteOffset .. len(target)), and the bytespans of all the
\* hunks emitted sum to len(target).
C28_TrailingTargetRead ==
    /\ df.pc = "yield targetread" =>
          df.yielded[Len(df.yielded)]
            = <<TARGETREAD, SubSeq(df.target, df.targetWriteOffset + 1, Len(df.target))>>
    /\ df.pc \in {"yield targetread", "yield sourcecrc32", "yield targetcrc32", "returned"} =>
          WrittenBefore(df.yielded, Len(df.yielded) + 1) = Len(df.target)

\* C28 holds when the blocks are of one byte.
C28_OneByteBlocks == (df # Idle /\ df.blocksize = 1) => C28_TrailingTargetRead

\* C30: the differ emits no SourceCopy whose offset is the target write
\* offset at which it is emitted; a match at the same position in the
\* source as in the target is emitted as a SourceRead.
C30_SourceReadInPlace ==
    df # Idle =>
        \A i \in 1..Len(df.yielded) :
            At(df.yielded[i], 0) = SOURCECOPY =>
                At(df.yielded[i], 2) # WrittenBefore(df.yielded, i)

\* The differ has emitted a SourceRead after the start of the target, and a
\* SourceCopy as well.
C30_Witness ==
    /\ df # Idle
    /\ \E i \in 1..Len(df.yielded) :
          At(df.yielded[i], 0) = SOURCEREAD /\ WrittenBefore(df.yielded, i) > 0
    /\ \E i \in 1..Len(df.yielded) : At(df.yielded[i], 0) = SOURCECOPY

\* A hunk that check_stream has accepted is applied: apply_to_bytearrays is
\* running and takes the item that check_stream yields.
AppliesHunk ==
    /\ opt = Idle
    /\ ap.pc = "running"
    /\ Len(stream') = Len(stream) + 1
    /\ At(stream'[Len(stream')], 0) \in HunkOps

\* The positions that lines 45-49 and 57-58 of blip/apply.py read for the
\* copy `item` at the write offset w: source_buf[offset:offset+length] and
\* target_buf[offset+i] take a negative index from the end, and the slice
\* stops at the ends of the source; -1 stands for an IndexError.
SourceIndexesRead(item, sourceSize) ==
    slice_index(At(item, 2), sourceSize)
        ..(slice_index(At(item, 2) + At(item, 1), sourceSize) - 1)
TargetIndexRead(item, i, targetSize) == item_index(At(item, 2) + i, targetSize) - 1

\* C29: for every stream that check_stream accepts, with a source of
\* sourceSize bytes and a target buffer of targetSize bytes, every index
\* that apply_to_bytearrays reads from the source is in [0, sourceSize),
\* every index that a TargetCopy reads is in [0, targetSize) and holds a
\* byte this run has written, every index written is in [0, targetSize),
\* and a copy offset is the same position for check_stream, which has
\* tested it, as for apply_to_bytearrays.
C29_SameIndexes ==
    [][ AppliesHunk =>
          LET item   == stream'[Len(stream')]
              length == op_size(item)
              w      == ap.writeOffset
          IN  /\ w + length <= cs.targetSize
              /\ At(item, 0) = SOURCEREAD =>
                    w + length <= Len(sb)
              /\ At(item, 0) = SOURCECOPY =>
                    /\ SourceIndexesRead(item, Len(sb)) \subseteq 0..(Len(sb) - 1)
                    /\ cs.sourceRelativeOffset + At(item, 2) = At(item, 2)
              /\ At(item, 0) = TARGETCOPY =>
                    /\ \A i \in 0..(length - 1) :
                          /\ TargetIndexRead(item, i, Len(ap.target_buf)) >= 0
                          /\ TargetIndexRead(item, i, Len(ap.target_buf)) < w + i
                    /\ cs.targetRelativeOffset + At(item, 2) = At(item, 2)
      ]_vars

\* The indexes alone: what is read and written is inside the source, the
\* written part of the target and the target.
C29_IndexesInside ==
    [][ AppliesHunk =>
          LET item   == stream'[Len(stream')]
              length == op_size(item)
              w      == ap.writeOffset
          IN  /\ w + length <= cs.targetSize
              /\ At(item, 0) = SOURCEREAD => w + length <= Len(sb)
              /\ At(item, 0) = SOURCECOPY =>
                    SourceIndexesRead(item, Len(sb)) \subseteq 0..(Len(sb) - 1)
              /\ At(item, 0) = TARGETCOPY =>
                    \A i \in 0..(length - 1) :
                       /\ TargetIndexRead(item, i, Len(ap.target_buf)) >= 0
                       /\ TargetIndexRead(item, i, Len(ap.target_buf)) < w + i
      ]_vars

(***************************************************************************)
(* optimize run on what optimize has yielded.                              *)
(***************************************************************************)
RECURSIVE optimize_run(_)
\* list(optimize(iterable)): the generator is resumed until it returns or
\* raises; the result is the generator at its end, `yielded` being the list.
optimize_run(o) ==
    IF o.pc \in {"returned", "CorruptFile"} THEN o
    ELSE optimize_run(optimize_resume(o))

RECURSIVE write_offset_at(_, _)
\* The write offset at which the i-th item of a list of items is emitted:
\* the sum of op_size over the hunks before it.
write_offset_at(items, i) ==
    IF i <= 1 THEN 0
    ELSE write_offset_at(items, i - 1)
         + (IF At(items[i - 1], 0) \in HunkOps THEN op_size(items[i - 1]) ELSE 0)

\* The i-th and the (i+1)-th item of a list are two operations that
\* optimize merges: two SourceReads, two TargetReads, or two copies of one
\* kind, the second starting where the first ends.
Mergeable(items, i) ==
    LET first == items[i]
        second == items[i + 1]
    IN  IF At(first, 0) # At(second, 0) THEN FALSE
        ELSE IF At(first, 0) \in {SOURCEREAD, TARGETREAD} THEN TRUE
        ELSE IF At(first, 0) \in CopyOps
        THEN At(second, 2) = At(first, 2) + At(first, 1)
        ELSE FALSE

\* The i-th item of a list is a SourceCopy whose offset is the write offset
\* at which it is emitted.
SourceCopyInPlace(items, i) ==
    IF At(items[i], 0) = SOURCECOPY
    THEN At(items[i], 2) = write_offset_at(items, i)
    ELSE FALSE

\* C31: the output of optimize is a fixed point of optimize: it holds no
\* two adjacent SourceReads, no two adjacent TargetReads, no two adjacent
\* copies of one kind with second.offset = first.offset + first.length and
\* no SourceCopy whose offset is the write offset at which it is emitted,
\* and optimize run on it returns and yields the same list.
C31_FixedPoint ==
    opt.pc = "returned" =>
        /\ \A i \in 1..(Len(opt.yielded) - 1) : ~Mergeable(opt.yielded, i)
        /\ \A i \in 1..Len(opt.yielded) : ~SourceCopyInPlace(opt.yielded, i)
        /\ optimize_run(optimize_init(opt.yielded)).pc = "returned"
        /\ optimize_run(optimize_init(opt.yielded)).yielded = opt.yielded

\* The input of the claim's failing case: SourceRead(1), SourceCopy(1, 1).
C31_AdjacentSourceReads ==
    (/\ opt.pc = "returned"
     /\ Len(stream) = 5
     /\ stream[2] = <<SOURCEREAD, 1>>
     /\ stream[3] = <<SOURCECOPY, 1, 1>>)
    => ~Mergeable(opt.yielded, 2)

\* C32: append(op, rollback) on a hunk operation raises ValueError whenever
\* rollback >= op.bytespan, whatever the buffer holds, so that every append
\* that succeeds increases the total bytespan held in the buffer.
C32_RequiresAdvancement ==
    (AppendCalled /\ bytespan(obuf.call.operation) > 0) =>
        /\ obuf.call.rollback >= bytespan(obuf.call.operation)
              => obuf.call.raised = "ValueError"
        /\ obuf.call.raised = "none"
              => buffer_bytespan(obuf.buf) > buffer_bytespan(obuf.call.was)

\* On an empty buffer, the case of the test append_requires_advancement,
\* append raises ValueError whenever rollback >= op.bytespan.
C32_OnEmptyBuffer ==
    (/\ obuf # Idle
     /\ obuf.call.name = "append"
     /\ obuf.call.was = <<>>
     /\ bytespan(obuf.call.operation) > 0
     /\ obuf.call.rollback >= bytespan(obuf.call.operation))
    => obuf.call.raised = "ValueError"

\* C33: if append(op, rollback) raises, the buffer holds exactly the same
\* operations, with the same bytespans, payloads and recorded copy offsets,
\* as before the call.
C33_RaiseLeavesBuffer ==
    (/\ obuf # Idle
     /\ obuf.call.name = "append"
     /\ obuf.call.raised # "none")
    => obuf.buf = obuf.call.was

\* What does hold: an append that raises leaves the operations that the
\* rollback did not cover whole, each as it was.
C33_RaiseLeavesKept ==
    (AppendCalled /\ obuf.call.raised # "none")
    => obuf.buf = Kept(obuf.call.was, obuf.call.rollback)

WriteIterable ==
    {Gives(i) : i \in
        {<<BLIP_MAGIC, BigOfInt(s), 2, <<>>>> : s \in {0, 128}}
        \cup {<<SOURCEREAD, k>> : k \in {1, 33}}
        \cup {<<TARGETREAD, <<65>>>>}
        \cup {<<op, 1, o>> : op \in CopyOps, o \in {0 - 1, 64}}
        \cup {<<op, v>> : op \in {SOURCECRC32, TARGETCRC32},
                          v \in {BigOfInt(0), BigMk(FALSE, MagSubB(Mag2Pow32, <<1>>, 0))}}}
    \cup {StopIteration}

InitWrite ==
    /\ wb = write_blip_init
    /\ stream = <<>>
    /\ rb = Idle
    /\ VarIntIdle
    /\ ValidateIdle
    /\ DiffIdle

\* write_blip takes g from its iterable.
WriteGiven(g) ==
    /\ wb' = write_blip_step(wb, g)
    /\ stream' = IF g.stop THEN stream ELSE Append(stream, g.item)
    /\ UNCHANGED <<varIntVars, validateVars, diffVars, rb, toolVars>>

WriteAnyHeader ==
    /\ wb.pc = "start"
    /\ \E g \in WriteIterable :
          /\ IF g.stop THEN TRUE ELSE At(g.item, 0) = BLIP_MAGIC
          /\ WriteGiven(g)

WriteAnyItem ==
    /\ wb.pc = "running"
    /\ Len(stream) <= MaxWriteItems
    /\ \E g \in WriteIterable :
          /\ IF g.stop THEN FALSE ELSE At(g.item, 0) # BLIP_MAGIC
          /\ WriteGiven(g)

WriteAnyEnd ==
    /\ wb.pc = "running"
    /\ WriteGiven(StopIteration)

NextWrite == WriteAnyHeader \/ WriteAnyItem \/ WriteAnyEnd

SpecWrite == InitWrite /\ [][NextWrite]_vars

\* Items that are all hunks; items that are zero or more hunks, then
\* SourceCRC32, then TargetCRC32; and whether `item` may follow the items s
\* in such a sequence.
AllHunks(s) == \A i \in 1..Len(s) : At(s[i], 0) \in HunkOps
HunksThenCRCs(s) ==
    /\ Len(s) >= 2
    /\ AllHunks(SubSeq(s, 1, Len(s) - 2))
    /\ At(s[Len(s) - 1], 0) = SOURCECRC32
    /\ At(s[Len(s)], 0) = TARGETCRC32
MayFollow(s, item) ==
    IF AllHunks(s) THEN At(item, 0) \in HunkOps \cup {SOURCECRC32}
    ELSE IF AllHunks(SubSeq(s, 1, Len(s) - 1)) /\ At(s[Len(s)], 0) = SOURCECRC32
    THEN At(item, 0) = TARGETCRC32
    ELSE FALSE

\* C35: once the header is written, write_blip writes the patch CRC (the
\* CRC-32 of all it has written) and returns only when the items after the
\* header were zero or more hunks, then SourceCRC32, then TargetCRC32, then
\* nothing; an item that may not follow the items before it (a hunk or a
\* SourceCRC32 after SourceCRC32, a TargetCRC32 not directly after
\* SourceCRC32, any item after TargetCRC32) and an input that ends before
\* TargetCRC32 raise CorruptFile, and nothing more is written.
C35_EventOrder ==
    [][ wb.pc = "running" =>
          IF stream' = stream
          THEN IF HunksThenCRCs(Tail(stream))
               THEN /\ wb'.pc = "returned"
                    /\ wb'.out_buf
                         = wb.out_buf \o pack_I(crc32(wb.out_buf, BigOfInt(0)))
               ELSE wb'.pc = "CorruptFile" /\ wb'.out_buf = wb.out_buf
          ELSE IF MayFollow(Tail(stream), stream'[Len(stream')])
               THEN wb'.pc = "running" /\ Len(wb'.out_buf) > Len(wb.out_buf)
               ELSE wb'.pc = "CorruptFile" /\ wb'.out_buf = wb.out_buf
      ]_vars

\* write_blip has returned on a header, a hunk and the two CRCs.
C35_Witness ==
    /\ wb.pc = "returned"
    /\ Len(stream) = 4
    /\ At(stream[2], 0) = TARGETREAD
    /\ Len(wb.out_buf) > 4

\* write_blip has raised on a hunk given after SourceCRC32.
C35_HunkAfterSourceCRC32 ==
    /\ wb.pc = "CorruptFile"
    /\ Len(stream) = 4
    /\ At(stream[3], 0) = SOURCECRC32
    /\ At(stream[4], 0) = SOURCEREAD

(***************************************************************************)
(* blip/io.py has a check_stream of its own, lines 79-192.  Its generator  *)
(* has the locals of blip/validate.py's; sourceRelativeOffset and          *)
(* targetRelativeOffset stay 0.  A StopIteration of next(iterable) inside  *)
(* the generator leaves it as a RuntimeError (as a silent return before    *)
(* Python 3.7), not as CorruptFile.                                        *)
(***************************************************************************)
\* _check_crc32(item), blip/io.py lines 54-76: either CRC opcode passes.
io_check_crc32(item) ==
    IF check_param_count(item, 1) # NoError THEN check_param_count(item, 1)
    ELSE IF At(item, 0) \notin {SOURCECRC32, TARGETCRC32} THEN "expected crc32"
    ELSE IF At(item, 1).neg THEN "bad crc32: must be at least zero"
    ELSE IF ~MagLess(At(item, 1).mag, Mag2Pow32) THEN "bad crc32: must be less than 2**32"
    ELSE NoError

\* The branches of the hunk loop, lines 133-177: a copy is tested for its
\* parameter count and its length only.
io_check_hunk(c, item) ==
    IF At(item, 0) = SOURCEREAD THEN check_sourceread(c, item)
    ELSE IF At(item, 0) = TARGETREAD THEN check_targetread(c, item)
    ELSE IF At(item, 0) \in CopyOps
    THEN IF check_param_count(item, 2) # NoError THEN check_param_count(item, 2)
         ELSE check_length(item)
    ELSE "unknown opcode"

io_check_next_stop(c) == [cs |-> [c EXCEPT !.pc = "RuntimeError"], yield |-> <<>>]

\* One resumption of the generator of blip/io.py's check_stream: it takes g
\* from the iterable, except after the yield of line 190, where it returns.
io_check_stream_resume(c, g) ==
    IF c.pc = "start"
    THEN \* lines 88-121
         IF g.stop THEN io_check_next_stop(c)
         ELSE IF check_header(g.item) # NoError
              THEN Raises(c, check_header(g.item))
         ELSE Yields([c EXCEPT !.sourceSize = At(g.item, 1),
                               !.targetSize = At(g.item, 2)],
                     "yield header", g.item)
    ELSE IF c.pc \in {"yield header", "yield item"}
            /\ c.targetWriteOffset < c.targetSize
    THEN \* lines 130-182
         IF g.stop THEN io_check_next_stop(c)
         ELSE IF io_check_hunk(c, g.item) # NoError
              THEN Raises(c, io_check_hunk(c, g.item))
         ELSE IF c.targetWriteOffset + op_size(g.item) > c.targetSize
              THEN Raises([c EXCEPT !.targetWriteOffset = @ + op_size(g.item)],
                          "writes past the end of the target")
         ELSE Yields([c EXCEPT !.targetWriteOffset = @ + op_size(g.item)],
                     "yield item", g.item)
    ELSE IF c.pc \in {"yield header", "yield item", "yield sourcecrc32"}
    THEN \* lines 184-186 and 188-190
         IF g.stop THEN io_check_next_stop(c)
         ELSE IF io_check_crc32(g.item) # NoError
              THEN Raises(c, io_check_crc32(g.item))
         ELSE Yields(c, IF c.pc = "yield sourcecrc32" THEN "yield targetcrc32"
                        ELSE "yield sourcecrc32", g.item)
    ELSE \* c.pc = "yield targetcrc32", line 192
         [cs |-> [c EXCEPT !.pc = "returned"], yield |-> <<>>]

RECURSIVE io_check_stream_run(_, _, _)
\* The generator c resumed once for each of the gives gs, until it returns
\* or raises: the generator then and the items it has yielded.
io_check_stream_run(c, gs, yielded) ==
    IF gs = <<>> \/ c.pc \in {"returned", "raised", "RuntimeError"}
    THEN [cs |-> c, yielded |-> yielded]
    ELSE io_check_stream_run(io_check_stream_resume(c, Head(gs)).cs, Tail(gs),
                             yielded \o io_check_stream_resume(c, Head(gs)).yield)

(***************************************************************************)
(* The two check_streams on one input.  The consumer of blip/validate.py's *)
(* generator drives it over any input; stream is the list of what the      *)
(* iterable has given, and blip/io.py's generator is run on the same list. *)
(***************************************************************************)
BothIterable ==
    {Gives(i) : i \in
        {<<BLIP_MAGIC, BigOfInt(s), t, <<>>>> : s \in {0, 1}, t \in {0, 2}}
        \cup {<<SOURCEREAD, 1>>, <<TARGETREAD, <<65>>>>}
        \cup {<<op, k, o>> : op \in CopyOps, k \in {1, 2}, o \in {0 - 1, 0, 1}}
        \cup {<<op, BigOfInt(0)>> : op \in {SOURCECRC32, TARGETCRC32}}}
    \cup {StopIteration}

InitBoth ==
    /\ cs = check_stream_init
    /\ got = Idle
    /\ taken = 0
    /\ out = <<>>
    /\ yields = 0
    /\ written = 0
    /\ stream = <<>>
    /\ wb = Idle
    /\ rb = Idle
    /\ VarIntIdle
    /\ DiffIdle

BothNext ==
    /\ cs.pc \in {"start"} \cup YieldStates
    /\ \E g \in BothIterable :
          /\ Resumed(g)
          /\ stream' = Append(stream, g)
    /\ UNCHANGED <<varIntVars, diffVars, toolVars, wb, rb>>

SpecBoth == InitBoth /\ [][BothNext]_vars

\* blip/io.py's check_stream on the input given so far.
IOChecked == io_check_stream_run(check_stream_init, stream, <<>>)

\* C36: blip.io.check_stream and blip.validate.check_stream behave the same
\* on every input: after the same items each has yielded the same items and
\* is at the same place, suspended at a yield, returned, or ended by a
\* CorruptFile raised at the same item.
C36_SameBehaviour ==
    /\ IOChecked.cs.pc = cs.pc
    /\ Len(IOChecked.yielded) = yields
    /\ yields > 0 => IOChecked.yielded[yields] = out

\* What the two have in common: while both run, they have yielded the same
\* items, and blip/io.py's generator is never the first to raise CorruptFile.
C36_ValidateIsStricter ==
    /\ IOChecked.cs.pc = "raised" => cs.pc = "raised"
    /\ cs.pc \in YieldStates =>
          /\ IOChecked.cs.pc = cs.pc
          /\ Len(IOChecked.yielded) = yields
          /\ yields > 0 => IOChecked.yielded[yields] = out

(***************************************************************************)
(* The main loop of diff_bytearrays, bps/diff.py lines 140-205, one pass   *)
(* of the `while` at a time.  df holds the locals; the ops of a pass are   *)
(* yielded within the pass.                                                *)
(***************************************************************************)
RECURSIVE diff_yield_ops(_)
\* `for op in bestOpList`, lines 188-196.
diff_yield_ops(d) ==
    IF d.bestOpList = <<>> THEN d
    ELSE diff_yield_ops(diff_after_op(diff_yield(d, d.pc, Head(d.bestOpList))))

\* One pass of the loop, lines 141-205; best is what the search of lines
\* 145-178 has found.
diff_pass(d, best) ==
    IF best.bestOpList = <<>>
    THEN [d EXCEPT !.pc = "searching", !.pendingTargetReadSize = @ + d.blocksize]
    ELSE diff_backlog([diff_yield_ops([d EXCEPT !.pc = "searching",
                                                !.bestOpList = best.bestOpList])
                          EXCEPT !.pendingTargetReadSize = 0])

RECURSIVE diff_finish(_)
\* From the end of the loop to the end of the generator, lines 207-212.
diff_finish(d) ==
    IF d.pc = "returned" THEN d ELSE diff_finish(diff_resume(d))

InitSearch ==
    /\ \E source \in ByteStrings(MaxDiffSource), target \in ByteStrings(MaxDiffTarget) :
          df = diff_resume(diff_init(source, target))
    /\ ap = Idle
    /\ PatchIdle
    /\ VarIntIdle
    /\ ValidateIdle
    /\ IOIdle

SearchPass ==
    /\ df.pc \in {"yield header", "searching"}
    /\ df.targetWriteOffset + df.pendingTargetReadSize < Len(df.target)
    /\ df' = diff_pass(df, search_blocks([bestOpList |-> <<>>,
                                          bestOpEfficiency |-> <<0, 1>>], df, 0))
    /\ UNCHANGED <<varIntVars, validateVars, ioVars, ap, sb, opt, apo, fl, ob, toolVars>>

\* The test of line 140 fails and the loop is left.
SearchExit ==
    /\ df.pc \in {"yield header", "searching"}
    /\ df.targetWriteOffset + df.pendingTargetReadSize >= Len(df.target)
    /\ df' = [df EXCEPT !.pc = "after loop"]
    /\ UNCHANGED <<varIntVars, validateVars, ioVars, ap, sb, opt, apo, fl, ob, toolVars>>

\* Lines 207-212: the last TargetRead and the two CRCs are yielded.
SearchFinish ==
    /\ df.pc = "after loop"
    /\ df' = diff_finish(diff_after_loop(df))
    /\ UNCHANGED <<varIntVars, validateVars, ioVars, ap, sb, opt, apo, fl, ob, toolVars>>

NextSearch == SearchPass \/ SearchExit \/ SearchFinish

SpecSearch == InitSearch /\ [][NextSearch]_vars

\* The generator is in its loop, and it is past it.
InSearchLoop == df.pc \in {"yield header", "searching"}
PastSearchLoop == df.pc = "after loop"

\* The generator runs on: a step that can be made is made.  SearchPass is
\* enabled exactly in the loop while the test of line 140 holds and
\* SearchFinish exactly past the loop, and each changes df; their weak
\* fairness is written with these guards for ENABLED.
SpecSearchFair ==
    /\ SpecSearch
    /\ WF_vars(SearchExit)
    /\ \/ []<>(~(/\ InSearchLoop
                 /\ df.targetWriteOffset + df.pendingTargetReadSize < Len(df.target)))
       \/ []<><<SearchPass>>_vars
    /\ \/ []<>(~PastSearchLoop)
       \/ []<><<SearchFinish>>_vars

\* A pass of the search loop has been made.
SearchPassed == InSearchLoop /\ df'.pc \in {"searching", "StopIteration"}

\* C37: diff_bytearrays terminates: every pass of its search loop strictly
\* increases targetWriteOffset + pendingTargetReadSize, either by emitting
\* the chosen ops, of a total bytespan of at least 1 and of more than the
\* pending size, or by adding the block size to the pending size; the
\* catch-up loop of the target map never asks for a block beyond the end
\* of the target; and the generator comes to its end.
C37_Terminates ==
    /\ [][ SearchPassed =>
             /\ df'.targetWriteOffset + df'.pendingTargetReadSize
                  > df.targetWriteOffset + df.pendingTargetReadSize
             /\ \/ /\ df'.yielded = df.yielded
                   /\ df'.targetWriteOffset = df.targetWriteOffset
                   /\ df'.pendingTargetReadSize
                        = df.pendingTargetReadSize + df.blocksize
                \/ /\ Len(df'.yielded) > Len(df.yielded)
                   /\ df'.targetWriteOffset >= df.targetWriteOffset + 1
                   /\ df'.targetWriteOffset <= Len(df.target)
                   /\ df'.pendingTargetReadSize = 0
         ]_vars
    /\ [](df.pc # "StopIteration")
    /\ <>(df.pc = "returned")

\* A pass with blocks of two bytes has emitted ops after a pass that found
\* nothing, and the catch-up loop has taken two blocks of the target.
C37_Witness ==
    /\ df.pc = "searching"
    /\ df.blocksize = 2
    /\ df.targetblocks = 2
    /\ Len(df.yielded) >= 3
    /\ At(df.yielded[2], 0) = TARGETREAD

(***************************************************************************)
(* _read_multiline_text on any text: read_blip_asm has read the label of   *)
(* the metadata or of a TargetRead and the reader is at the start of what  *)
(* follows it.                                                             *)
(***************************************************************************)
InitAsmRead ==
    /\ \E text \in Texts(MaxMetadata) :
          asm = [pc |-> "read", metadata |-> <<>>, todo |-> <<>>, text |-> text,
                 pos |-> 0, lines |-> <<>>]
    /\ obuf = Idle
    /\ ob = Idle
    /\ cw = Idle
    /\ OthersIdle

SpecAsmRead == InitAsmRead /\ [][AsmReadLine]_vars

\* The loop runs on: a pass that can be made is made.
SpecAsmReadFair == SpecAsmRead /\ WF_vars(AsmReadLine)

\* The text has a line that is '.' alone, with its newline.
HasEndLine(text) ==
    \E i \in 1..(Len(text) - 1) :
        /\ text[i] = "."
        /\ text[i + 1] = "\n"
        /\ (i = 1 \/ text[i - 1] = "\n")

\* C38: _read_multiline_text returns or raises after finitely many readline
\* calls on every finite text, also on one that ends without a line that
\* is '.' alone.
C38_ReadTerminates == <>(asm.pc \in {"return", "raised"})

\* On a text that has such a line it returns.
C38_WithEndLine == HasEndLine(asm.text) => <>(asm.pc = "return")

====
